---- MODULE Spec2Model ----
(***************************************************************************)
(* Model of the incremental store (upsert) of the traffic data processor:  *)
(* ArcpyFileLoader.storeTable and ArcpyFileLoader.modifyDatabase of        *)
(* src/loaders.py, with the pandas operations they use written out.        *)
(*                                                                         *)
(* A DataFrame is a record [cols, rows]: cols is the sequence of column    *)
(* names, rows the sequence of rows; a row is [ix, val] where ix is the    *)
(* row's index label and val maps every column name of cols to a value.    *)
(* The database table is table_fields (its non-OID fields, in order) and   *)
(* table_rows (one tuple of values per stored row, in cursor order).       *)
(*                                                                         *)
(* Further sections model the loop over the data files of process_data     *)
(* (SpecRun), the spatial branch of BaseExtractor.filter_data with the     *)
(* geofilters of src/geofilters.py (SpecFilter), the store calls of        *)
(* ArcpyFileLoader and GeoPandasFileLoader on batches and stored data with *)
(* and without the key column (SpecKey), and the representations of a      *)
(* missing value in the frames of the Arcpy store (SpecNull), the loops    *)
(* of process_data over the scrapers and the APIs (SpecUnits) and its walk *)
(* over the directories of the data folder (SpecWalk).                     *)
(***************************************************************************)
EXTENDS Integers, Sequences, FiniteSets, TLC

\* ---------------------------------------------------------------- bounds
MaxKey == 3
MaxVal == 2
MaxStoredVal == 1
MaxNewVal == 1
MaxBatch == 2
MaxCalls == 2
MaxCommitKey == 2
MaxCommitVal == 1
MaxUnits == 3
MaxFileRows == 2
MaxCoord == 2
MaxPolygons == 2
MaxPolygonId == 2
MaxRecords == 2
MaxFilterKey == 2
MaxKeyId == 2
MaxKeyVal == 1
MaxKeyBatch == 2
MaxKeyCoord == 2
MaxNullKey == 2
MaxNullVal == 1
MaxNullRows == 2
MaxScrapers == 2
MaxApis == 2
MaxDirs == 2
MaxFiles == 3
MaxOrder == 2
MaxApiKey == 2
MaxApiVal == 1
MaxApiRows == 1

\* ------------------------------------------------------------ constants
\* None / NaN: the missing value of a cell.
Null == 0

id_column == "id"

Keys == 1..MaxKey

\* ------------------------------------------------------ sequence helpers
Range(s) == {s[i] : i \in DOMAIN s}

\* s[m]: the elements of s at the positions where the boolean mask m holds.
MaskSelect(s, m) ==
  LET F[i \in 0..Len(s)] ==
        IF i = 0 THEN <<>>
        ELSE IF m[i] THEN Append(F[i - 1], s[i]) ELSE F[i - 1]
  IN F[Len(s)]

Not(m) == [i \in DOMAIN m |-> ~m[i]]

\* The concatenation of the sequences of the sequence ss.
Flatten(ss) ==
  LET F[i \in 0..Len(ss)] == IF i = 0 THEN <<>> ELSE F[i - 1] \o ss[i]
  IN F[Len(ss)]

\* ------------------------------------------------------- pandas helpers
EmptyFrame == [cols |-> <<>>, rows |-> <<>>]

\* df[c]: the values of column c, in row order.
Column(df, c) == [i \in 1..Len(df.rows) |-> df.rows[i].val[c]]

\* Series.isin(values)
isin(series, values) ==
  [i \in 1..Len(series) |-> \E j \in 1..Len(values) : values[j] = series[i]]

\* groupby(key).cumcount(): the 0-based rank of each row among the rows
\* with the same key, in row order.
cumcount(keys) ==
  [i \in 1..Len(keys) |-> Cardinality({j \in 1..(i - 1) : keys[j] = keys[i]})]

\* df[columns]: the projection of df on a list of columns.
Project(df, columns) ==
  [cols |-> columns,
   rows |-> [i \in 1..Len(df.rows) |->
               [ix  |-> df.rows[i].ix,
                val |-> [c \in Range(columns) |-> df.rows[i].val[c]]]]]

\* df[mask]
Filter(df, mask) == [cols |-> df.cols, rows |-> MaskSelect(df.rows, mask)]

\* df.values.tolist(): one tuple per row, the values in column order.
ValuesToList(df) ==
  [i \in 1..Len(df.rows) |->
     [j \in 1..Len(df.cols) |-> df.rows[i].val[df.cols[j]]]]

\* df with the columns of columns that it lacks added, every cell None
\* (loaders.py: insert_df[col] = None).
AddMissing(df, columns) ==
  LET extra == SelectSeq(columns, LAMBDA c : c \notin Range(df.cols))
      all   == df.cols \o extra
  IN [cols |-> all,
      rows |-> [i \in 1..Len(df.rows) |->
                  [ix  |-> df.rows[i].ix,
                   val |-> [c \in Range(all) |->
                              IF c \in Range(df.cols) THEN df.rows[i].val[c]
                              ELSE Null]]]]

\* A concat whose result is not kept: the rows of b are lost.
concat_first(a, b) == a

\* pd.concat([a, b]): the rows of a, then the rows of b, over the union of
\* the columns (a's first); a cell of a column the row's frame lacks is NaN.
concat(a, b) == 
  LET extra == SelectSeq(b.cols, LAMBDA c : c \notin Range(a.cols))
      all   == a.cols \o extra
      Wide(df) == [i \in 1..Len(df.rows) |->
                     [ix  |-> df.rows[i].ix,
                      val |-> [c \in Range(all) |->
                                 IF c \in Range(df.cols) THEN df.rows[i].val[c]
                                 ELSE Null]]]
  IN [cols |-> all, rows |-> Wide(a) \o Wide(b)]

\* left.merge(right, "left", on): for every row of left, in order, one row
\* per row of right with the same key (in right's order), or one row with
\* NaN in right's columns when right has no such row. The result has the
\* default index: its rows are numbered anew.
merge_left(left, right, on) ==
  LET rcols == SelectSeq(right.cols, LAMBDA c : c # on)
      all   == left.cols \o rcols
      Join(l, r) == [c \in Range(all) |->
                       IF c \in Range(left.cols) THEN l.val[c] ELSE r.val[c]]
      Alone(l)   == [c \in Range(all) |->
                       IF c \in Range(left.cols) THEN l.val[c] ELSE Null]
      Matches(l) == MaskSelect(right.rows,
                      [i \in 1..Len(right.rows) |->
                         right.rows[i].val[on] = l.val[on]])
      Rows(l)    == IF Matches(l) = <<>> THEN <<Alone(l)>>
                    ELSE [k \in 1..Len(Matches(l)) |-> Join(l, Matches(l)[k])]
      joined     == Flatten([j \in 1..Len(left.rows) |-> Rows(left.rows[j])])
  IN [cols |-> all,
      rows |-> [k \in 1..Len(joined) |-> [ix |-> k, val |-> joined[k]]]]

\* ----------------------------------------------- ArcpyFileLoader.storeTable
\* in_df is the incoming batch, processed_data the table as loaded. Every
\* definition is one assignment of storeTable and takes the values that
\* assignment reads.

\* The incoming keys looked up among the incoming keys themselves.
present_id_mask_self(in_df, processed_data) ==
  isin(Column(in_df, id_column), Column(in_df, id_column))

present_id_mask(in_df, processed_data) ==
  isin(Column(in_df, id_column), Column(processed_data, id_column))

\* A mask that marks every stored row.
update_mask_all(in_df, processed_data) ==
  [j \in 1..Len(processed_data.rows) |-> TRUE]

update_mask(in_df, processed_data) ==
  isin(Column(processed_data, id_column), Column(in_df, id_column))

\* update_df = in_df[present_id_mask]
update_df(in_df, present) == Filter(in_df, present)

\* insert_df = in_df[~present_id_mask], with the stored columns that the
\* batch lacks added as None.
insert_df(in_df, present, processed_data) ==
  AddMissing(Filter(in_df, Not(present)), processed_data.cols)

shared_columns(upd, processed_data) ==
  SelectSeq(upd.cols, LAMBDA c : c \in Range(processed_data.cols))

not_shared_columns(upd, processed_data) ==
  Append(SelectSeq(upd.cols, LAMBDA c : c \notin Range(processed_data.cols)),
         id_column)

\* current_cols_df = update_df[shared_columns]
current_cols_df(upd, shared) == Project(upd, shared)

\* new_cols_df = update_df[not_shared_columns]
new_cols_df(upd, not_shared) == Project(upd, not_shared)

\* df[[id_column, "idx_duplicates"]]: the (key, occurrence index) of every
\* row, the occurrence index being groupby(id_column).cumcount().
KeyOccurrence(df) ==
  LET keys == Column(df, id_column)
      occ  == cumcount(keys)
  IN [i \in 1..Len(keys) |-> <<keys[i], occ[i]>>]

\* intersect_df["_merge"] == "left_only": the candidates whose
\* (key, idx_duplicates) no stored row has. cand is new_cols_keys, kept is
\* update_keys.
intersect_mask(cand, kept) ==
  [i \in 1..Len(cand) |-> ~\E j \in 1..Len(kept) : kept[j] = cand[i]]

\* new_df = current_cols_df[intersect_mask], without idx_duplicates.
new_df(cur, unmatched) == Filter(cur, unmatched)

\* An update matched on the key alone: every stored row of a key takes the
\* cells of the first candidate with that key.
update_by_key(processed_data, cur, cand, kept) ==
  LET M(j) == {i \in 1..Len(cand) : cand[i][1] = kept[j][1]}
      First(j) == CHOOSE i \in M(j) : \A k \in M(j) : i <= k
      Cell(j, c) ==
        IF c # id_column /\ c \in Range(cur.cols) /\ M(j) # {}
        THEN LET that == cur.rows[First(j)].val[c]
             IN IF that # Null THEN that ELSE processed_data.rows[j].val[c]
        ELSE processed_data.rows[j].val[c]
  IN [cols |-> <<id_column>> \o
               SelectSeq(processed_data.cols, LAMBDA c : c # id_column),
      rows |-> [j \in 1..Len(processed_data.rows) |->
                  [ix  |-> j,
                   val |-> [c \in Range(processed_data.cols) |-> Cell(j, c)]]]]

\* update_data.update(current_cols_df) on the index (key, idx_duplicates):
\* a non-NA cell of the candidate with the same index replaces the stored
\* cell; reset_index then puts the key column first.
update_shared(processed_data, cur, cand, kept) ==
  LET M(j) == {i \in 1..Len(cand) : cand[i] = kept[j]}
      Cell(j, c) ==
        IF c # id_column /\ c \in Range(cur.cols) /\ M(j) # {}
        THEN LET that == cur.rows[CHOOSE i \in M(j) : TRUE].val[c]
             IN IF that # Null THEN that ELSE processed_data.rows[j].val[c]
        ELSE processed_data.rows[j].val[c]
  IN [cols |-> <<id_column>> \o
               SelectSeq(processed_data.cols, LAMBDA c : c # id_column),
      rows |-> [j \in 1..Len(processed_data.rows) |->
                  [ix  |-> j,
                   val |-> [c \in Range(processed_data.cols) |-> Cell(j, c)]]]]

\* addTableFields: the fields of the table after the fields that df has and
\* the table lacks were added, in df's column order.
addTableFields(fields, df) ==
  fields \o SelectSeq(df.cols, LAMBDA c : c \notin Range(fields))

\* storeTable on an existing table, up to the call of modifyDatabase.
storeTable(in_df, processed_data) ==
  LET present    == present_id_mask(in_df, processed_data)
      mask       == update_mask(in_df, processed_data)
      upd        == update_df(in_df, present)
      ins        == insert_df(in_df, present, processed_data)
      shared     == shared_columns(upd, processed_data)
      not_shared == not_shared_columns(upd, processed_data)
      cur        == current_cols_df(upd, shared)
      new_cols   == new_cols_df(upd, not_shared)
      merges     == Len(shared) > 1
      joins      == Len(not_shared) > 1
      kept       == KeyOccurrence(processed_data)
      cand       == KeyOccurrence(cur)
      unmatched  == intersect_mask(cand, kept)
      moved      == IF merges THEN new_df(cur, unmatched)
                    ELSE [cols |-> shared, rows |-> <<>>]
      ins2       == IF merges THEN concat(ins, moved) ELSE ins
      upd_shared == IF merges
                    THEN update_shared(processed_data, cur, cand, kept)
                    ELSE processed_data
      upd_data   == IF joins THEN merge_left(upd_shared, new_cols, id_column)
                    ELSE upd_shared
      fields     == addTableFields(processed_data.cols, ins2)
  IN [merges        |-> merges,
      insert_first  |-> ins,
      joins         |-> joins,
      update_mask   |-> mask,
      update_df     |-> upd,
      new_df        |-> moved,
      insert_df     |-> ins2,
      update_shared |-> upd_shared,
      update_data   |-> upd_data,
      update_list   |-> ValuesToList(upd_data),
      insert_list   |-> ValuesToList(Project(ins2, fields)),
      fields        |-> fields]

\* ------------------------------------------------------------ the database
VARIABLES
  table_exists,   \* arcpy.Exists(entry_name)
  table_fields,   \* the non-OID fields of the table, in table order
  table_rows,     \* the committed rows, one tuple per row, in cursor order
  edit_rows,      \* the rows as seen inside the open arcpy.da.Editor session
  pc,             \* "idle", or the position of modifyDatabase: "update", "insert"
  cursor,         \* the next row of the UpdateCursor / next entry of insert_list
  calls,          \* number of store calls made
  last,           \* the inputs and the plan of the most recent store call
  flt,            \* the state of one call of BaseExtractor.filter_data
  run,            \* the state of the file loop of process_data
  key             \* the state of the calls of store_processed_data of a loader

vars == <<table_exists, table_fields, table_rows, edit_rows, pc, cursor,
          calls, last, flt, run, key>>

IndexOf(s, x) == CHOOSE i \in DOMAIN s : s[i] = x

\* A load that returns the table as it was before any row was stored.
load_processed_stale(fields, rows) == [cols |-> fields, rows |-> <<>>]

\* ArcpyFileLoader.load_processed_data: the rows of the table as a frame
\* with the default index.
load_processed_data(fields, rows) ==
  [cols |-> fields,
   rows |-> [i \in 1..Len(rows) |->
               [ix  |-> i,
                val |-> [c \in Range(fields) |-> rows[i][IndexOf(fields, c)]]]]]

\* astype({id_column: "int64"}) raises on a missing key.
LoadRaises(fields, rows) ==
  \E i \in 1..Len(rows) : rows[i][IndexOf(fields, id_column)] = Null

\* AddField gives every stored row NULL in the added fields.
Widen(rows, old_fields, new_fields) ==
  [i \in 1..Len(rows) |->
     [j \in 1..Len(new_fields) |->
        IF j <= Len(old_fields) THEN rows[i][j] ELSE Null]]

\* The UpdateCursor loop of modifyDatabase over rows.
ApplyUpdates(rows, ulist, umask) ==
  IF Len(ulist) > 0
  THEN [i \in 1..Len(rows) |-> IF umask[i] THEN ulist[i] ELSE rows[i]]
  ELSE rows

\* modifyDatabase: the masked updates, then the inserts, under one Editor.
modifyDatabase(rows, ulist, umask, ilist) ==
  ApplyUpdates(rows, ulist, umask) \o ilist

NoCall ==
  [kind |-> "none", again |-> FALSE, in_df |-> EmptyFrame,
   pre_fields |-> <<>>, pre_rows |-> <<>>,
   merges |-> FALSE, joins |-> FALSE, insert_first |-> EmptyFrame,
   update_mask |-> <<>>, update_df |-> EmptyFrame, new_df |-> EmptyFrame,
   insert_df |-> EmptyFrame, update_shared |-> EmptyFrame,
   update_data |-> EmptyFrame,
   update_list |-> <<>>, insert_list |-> <<>>, fields |-> <<>>]

\* The record of a call of storeTable on an existing table.
MergeCall(in_df, again) ==
  [kind |-> "merge", again |-> again, in_df |-> in_df,
   pre_fields |-> table_fields, pre_rows |-> table_rows]
  @@ storeTable(in_df, load_processed_data(table_fields, table_rows))

\* A creation that inserts only the first row of the batch.
CreateFirst(in_df, again) ==
  [NoCall EXCEPT !.kind = "create", !.again = again, !.in_df = in_df,
                 !.insert_first = in_df, !.insert_df = in_df,
                 !.insert_list = <<ValuesToList(in_df)[1]>>,
                 !.fields = addTableFields(<<>>, in_df)]

\* The record of a call of storeTable that creates the table.
CreateCall(in_df, again) ==
  [NoCall EXCEPT !.kind = "create", !.again = again, !.in_df = in_df,
                 !.insert_first = in_df, !.insert_df = in_df,
                 !.insert_list = ValuesToList(in_df),
                 !.fields = addTableFields(<<>>, in_df)]

\* The record of a call that raised while loading the table.
ErrorCall(in_df, again) ==
  [NoCall EXCEPT !.kind = "error", !.again = again, !.in_df = in_df,
                 !.pre_fields = table_fields, !.pre_rows = table_rows,
                 !.fields = table_fields]

\* The exception that ends a call of ArcpyFileLoader.store_processed_data
\* before anything is written, "" when there is none: astype raises KeyError
\* when the key column is missing from the batch (161) or from the stored
\* table (96), and TypeError on a missing key value (96).
StoreError(in_df) ==
  IF id_column \notin Range(in_df.cols) THEN "KeyError"
  ELSE IF ~table_exists THEN ""
  ELSE IF id_column \notin Range(table_fields) THEN "KeyError"
  ELSE IF LoadRaises(table_fields, table_rows) THEN "TypeError"
  ELSE ""

PlanOf(in_df, again) ==
  IF StoreError(in_df) # "" THEN ErrorCall(in_df, again)
  ELSE IF ~table_exists THEN CreateCall(in_df, again)
  ELSE MergeCall(in_df, again)

\* -------------------------------------------------------------- the inputs
Schemas ==
  {<<"id", "v">>, <<"v", "id">>, <<"id", "w">>, <<"id", "v", "w">>}

\* The column lists of the batch that creates the table.
CreateSchemas == {<<"id", "v">>, <<"v", "id">>}

NewColumn == "w"

\* The values a cell of column c takes in a batch; creating tells the batch
\* that creates the table from the later ones.
CellValues(c, creating) ==
  IF c = id_column THEN Keys
  ELSE IF c = NewColumn THEN 0..MaxNewVal
  ELSE IF creating THEN 0..MaxStoredVal
  ELSE 0..MaxVal

AllValues == 0..(MaxKey + MaxVal + MaxStoredVal + MaxNewVal)

RowsOf(schema, creating) ==
  {r \in [Range(schema) -> AllValues] :
     \A c \in Range(schema) : r[c] \in CellValues(c, creating)}

\* The non-empty batches of at most MaxBatch rows over schema, each with the
\* default index.
BatchesOf(schema, creating) ==
  {[cols |-> schema,
    rows |-> [i \in 1..Len(rs) |-> [ix |-> i, val |-> rs[i]]]] :
     rs \in UNION {[1..n -> RowsOf(schema, creating)] : n \in 1..MaxBatch}}

Batches ==
  IF table_exists THEN UNION {BatchesOf(s, FALSE) : s \in Schemas}
  ELSE UNION {BatchesOf(s, TRUE) : s \in CreateSchemas}

\* ------------------------------------------------------------- the actions
\* No table is stored yet and no store call was made.
NoTable ==
  /\ table_exists = FALSE
  /\ table_fields = <<>>
  /\ table_rows = <<>>
  /\ edit_rows = <<>>
  /\ pc = "idle"
  /\ cursor = 0
  /\ calls = 0
  /\ last = NoCall

\* No call of filter_data is under way.
NoFilter == [pc |-> "off"]

\* No file loop is under way.
NoRun == [state |-> "off"]

\* No store call of a chosen loader is under way.
NoKey == [pc |-> "off"]

Init ==
  /\ NoTable
  /\ flt = NoFilter
  /\ key = NoKey
  /\ run = NoRun

\* storeTable(in_df) as one step: the plan, addTableFields, modifyDatabase.
Store(in_df, again) ==
  /\ pc = "idle"
  /\ last' = PlanOf(in_df, again)
  /\ calls' = calls + 1
  /\ IF last'.kind = "error"
     THEN UNCHANGED <<table_exists, table_fields, table_rows>>
     ELSE /\ table_exists' = TRUE
          /\ table_fields' = last'.fields
          /\ table_rows' =
               modifyDatabase(Widen(table_rows, table_fields, last'.fields),
                              last'.update_list, last'.update_mask,
                              last'.insert_list)
  /\ UNCHANGED <<edit_rows, pc, cursor, flt>>

StoreTable ==
  /\ calls < MaxCalls
  /\ \E in_df \in Batches : Store(in_df, FALSE)
  /\ UNCHANGED <<run, key>>

\* The same batch is stored a second time.
StoreAgain ==
  /\ last.kind \in {"create", "merge"}
  /\ ~last.again
  /\ Store(last.in_df, TRUE)
  /\ UNCHANGED <<run, key>>

Next == StoreTable \/ StoreAgain

Spec == Init /\ [][Next]_vars

\* ------------------------------------------- modifyDatabase, step by step
\* The batches stored step by step.
CommitBatches ==
  {b \in Batches :
     \A i \in 1..Len(b.rows) : \A c \in Range(b.cols) :
       b.rows[i].val[c] <= (IF c = id_column THEN MaxCommitKey
                            ELSE MaxCommitVal)}

\* The committed rows while the arcpy.da.Editor session is open: the edits
\* of the session stay in the session until it is left without an exception
\* ("Execute database modifications under Editor, so either all operations
\* succeed or all fail", loaders.py 347). The Editor is arcpy's; what it
\* does is taken from that comment and from the atomic commit of the
\* specification, not from code of the repository.
EditorSession(committed, edited) == committed

\* storeTable up to the entry of the Editor block of modifyDatabase: the
\* plan is made, the table is created if it is missing and its fields are
\* added (outside the edit session), and the session opens.
BeginStore ==
  /\ pc = "idle"
  /\ key.loader = "ArcpyFileLoader"
  /\ calls < MaxCalls
  /\ \E in_df \in CommitBatches : last' = PlanOf(in_df, FALSE)
  /\ calls' = calls + 1
  /\ IF last'.kind = "error"
     THEN UNCHANGED <<table_exists, table_fields, table_rows,
                      edit_rows, pc, cursor>>
     ELSE /\ table_exists' = TRUE
          /\ table_fields' = last'.fields
          /\ table_rows' = Widen(table_rows, table_fields, last'.fields)
          /\ edit_rows' = table_rows'
          /\ pc' = IF Len(last'.update_list) > 0 THEN "update" ELSE "insert"
          /\ cursor' = 1
  /\ UNCHANGED <<flt, run, key>>

\* One turn of the UpdateCursor loop.
UpdateRow ==
  /\ pc = "update"
  /\ cursor <= Len(edit_rows)
  /\ edit_rows' = [edit_rows EXCEPT ![cursor] =
                     IF last.update_mask[cursor] THEN last.update_list[cursor]
                     ELSE @]
  /\ table_rows' = EditorSession(table_rows, edit_rows')
  /\ cursor' = cursor + 1
  /\ UNCHANGED <<table_exists, table_fields, pc, calls, last, flt, run, key>>

\* The UpdateCursor is exhausted.
EndUpdates ==
  /\ pc = "update"
  /\ cursor > Len(edit_rows)
  /\ pc' = "insert"
  /\ cursor' = 1
  /\ UNCHANGED <<table_exists, table_fields, table_rows, edit_rows, calls, last, flt, run, key>>

\* One turn of the InsertCursor loop.
InsertRow ==
  /\ pc = "insert"
  /\ cursor <= Len(last.insert_list)
  /\ edit_rows' = Append(edit_rows, last.insert_list[cursor])
  /\ table_rows' = EditorSession(table_rows, edit_rows')
  /\ cursor' = cursor + 1
  /\ UNCHANGED <<table_exists, table_fields, pc, calls, last, flt, run, key>>

\* The Editor block is left normally: the session's edits are saved.
EditorExit ==
  /\ pc = "insert"
  /\ cursor > Len(last.insert_list)
  /\ table_rows' = edit_rows
  /\ edit_rows' = <<>>
  /\ pc' = "idle"
  /\ cursor' = 0
  /\ UNCHANGED <<table_exists, table_fields, calls, last, flt, run, key>>

\* An exception leaves the Editor block: the session's edits are dropped.
EditorAbort ==
  /\ pc \in {"update", "insert"}
  /\ last' = [last EXCEPT !.kind = "aborted"]
  /\ edit_rows' = <<>>
  /\ pc' = "idle"
  /\ cursor' = 0
  /\ UNCHANGED <<table_exists, table_fields, table_rows, calls, flt, run, key>>

\* ------------------------------------------ the file loop of process_data
\* The column lists of a file with coordinates.
SpatialSchemas == {<<"id", "x", "y">>, <<"id", "x", "y", "v">>}

\* SelectSeq without a test operator: the elements of s that are in set.
Within(s, set) ==
  LET F[i \in 0..Len(s)] ==
        IF i = 0 THEN <<>>
        ELSE IF s[i] \in set THEN Append(F[i - 1], s[i]) ELSE F[i - 1]
  IN F[Len(s)]

\* set_db_flags: the flag column is added, except for an empty frame of the
\* directory that is processed last.
set_db_flags(cols, empty, last_dir) ==
  IF last_dir /\ empty THEN cols
  ELSE IF "last_modify" \in Range(cols) THEN cols
  ELSE Append(cols, "last_modify")

\* drop_xy
drop_xy(cols) == Within(cols, Range(cols) \ {"x", "y"})

\* add_geometry on the columns: x and y give way to a leading Shape.
add_geometry_cols(cols) ==
  IF {"x", "y"} \subseteq Range(cols)
  THEN <<"Shape">> \o Within(cols, Range(cols) \ {"x", "y", "Shape"})
  ELSE cols

\* The fields addTableFields adds for the columns cols and the flags.
added_fields(fields, cols, flags) ==
  LET new == Within(cols, Range(cols) \ (Range(fields) \cup {"Shape"}))
  IN new \o Within(flags, Range(flags) \ (Range(fields) \cup Range(new)))

\* The columns of the frame of a file with coordinates as filter_data
\* returns it: the geometry column was added by the geofilter.
with_geometry(cols) == Append(cols, "geometry")

\* store_processed_data 157-158: in_df.drop("geometry", axis=1,
\* inplace=True); the columns of the caller's frame afterwards.
drop_geometry_inplace(cols) == Within(cols, Range(cols) \ {"geometry"})

\* No feature class is stored.
NoFeatureClass == [exists |-> FALSE, fields |-> <<>>, ids |-> <<>>]

\* storeFeatureClass on an existing feature class reaches the exit() that
\* follows the two prints when update_df shares a column besides the key
\* with the stored data. The rows of update_df are the rows of in_df whose
\* key is stored; empty tells that there is none.
storeFeatureClassExits(fc, cols, empty, last_dir) ==
  /\ fc.exists
  /\ LET update_cols == drop_xy(set_db_flags(cols, empty, last_dir))
         shared_cols == Within(update_cols, Range(fc.fields))
     IN Len(shared_cols) > 1

\* storeFeatureClass when it returns: the feature class afterwards.
storeFeatureClass(fc, cols, ids, last_dir) ==
  IF fc.exists
  THEN LET insert_cols ==
             add_geometry_cols(set_db_flags(cols, ids = <<>>, last_dir))
       IN [exists |-> TRUE,
           fields |-> fc.fields \o
                      added_fields(fc.fields, insert_cols, <<"last_modify">>),
           ids    |-> fc.ids \o ids]
  ELSE [exists |-> TRUE,
        fields |-> <<"Shape">> \o
                   added_fields(<<"Shape">>, add_geometry_cols(cols),
                                <<"last_modify">>),
        ids    |-> ids]

\* transform_data: dropna(how="all", axis="columns").
dropna_columns(df) ==
  Project(df, Within(df.cols,
                     {c \in Range(df.cols) :
                        \E i \in 1..Len(df.rows) : df.rows[i].val[c] # Null}))

\* A filter that lets every row through.
filter_nothing(file_data, processed_ids) == file_data

\* filter_data for a file without coordinates: the rows whose key was
\* processed before, when any key was.
filter_by_processed(file_data, processed_ids) ==
  IF processed_ids = {} THEN file_data
  ELSE Filter(file_data,
              [i \in 1..Len(file_data.rows) |->
                 file_data.rows[i].val[id_column] \in processed_ids])

\* The files with coordinates of a run: their columns and the keys of
\* their rows.
FileIds ==
  UNION {[1..n -> 1..MaxCommitKey] : n \in 1..MaxFileRows}

\* The feature class at the start of a run.
StartFeatureClasses ==
  {NoFeatureClass,
   [exists |-> TRUE, fields |-> <<"Shape", "id", "last_modify">>,
    ids |-> <<1>>],
   [exists |-> TRUE, fields |-> <<"Shape", "id", "v", "last_modify">>,
    ids |-> <<1>>]}

InitRun ==
  /\ NoTable
  /\ flt = NoFilter
  /\ key = NoKey
  /\ \E fc \in StartFeatureClasses, last_dir \in BOOLEAN :
       run = [state |-> "running", unit |-> 1, fc |-> fc,
              processed_ids |-> {}, last_dir |-> last_dir,
              seen |-> <<>>, committed |-> <<>>,
              passed |-> <<>>, returned |-> <<>>,
              persisted_first |-> {}, spatial_ids |-> {},
              file_ids |-> <<>>, used_ids |-> {}, filtered_ids |-> <<>>]

\* The table as reconciliation reads it and as a commit leaves it.
TableState(exists, fields, rows) ==
  [exists |-> exists, fields |-> fields, rows |-> rows]

\* One turn of the loop over the files for the file with coordinates, which
\* the sort puts first: its loader stores a feature class. raises tells
\* that extract_data raised; kept is what the spatial filter keeps.
ProcessSpatialFile ==
  /\ run.state = "running"
  /\ run.unit = 1
  /\ \E cols \in SpatialSchemas, file_ids \in FileIds, raises \in BOOLEAN,
        kept \in [1..MaxFileRows -> BOOLEAN] :
       LET loaded == IF run.processed_ids = {} /\ run.fc.exists
                     THEN Range(run.fc.ids) ELSE run.processed_ids
           new_ids == IF run.fc.exists /\ run.fc.ids # <<>>
                      THEN Within(file_ids, Range(file_ids) \ Range(run.fc.ids))
                      ELSE file_ids
           extracted == MaskSelect(new_ids, [i \in 1..Len(new_ids) |-> kept[i]])
           ids == loaded \cup Range(extracted)
       IN run' =
            IF raises
            THEN [run EXCEPT !.state = "raised", !.processed_ids = loaded,
                             !.persisted_first = loaded]
            ELSE IF extracted = <<>>
            THEN [run EXCEPT !.unit = @ + 1, !.processed_ids = loaded,
                             !.persisted_first = loaded]
            ELSE IF storeFeatureClassExits(run.fc, cols, TRUE, run.last_dir)
            THEN [run EXCEPT !.state = "exited", !.processed_ids = ids,
                             !.persisted_first = loaded,
                             !.spatial_ids = Range(extracted),
                             !.passed = with_geometry(cols),
                             !.returned =
                                drop_geometry_inplace(with_geometry(cols))]
            ELSE [run EXCEPT !.unit = @ + 1, !.processed_ids = ids,
                             !.persisted_first = loaded,
                             !.spatial_ids = Range(extracted),
                             !.passed = with_geometry(cols),
                             !.returned =
                                drop_geometry_inplace(with_geometry(cols)),
                             !.fc = storeFeatureClass(run.fc, cols, extracted,
                                                      run.last_dir)]
  /\ UNCHANGED <<table_exists, table_fields, table_rows, edit_rows, pc,
                 cursor, calls, last, flt, key>>

\* One turn of the loop for a file without coordinates, stored in the
\* table. raises tells that extract_data raised.
ProcessTableFile ==
  /\ run.state = "running"
  /\ run.unit > 1
  /\ run.unit <= MaxUnits
  /\ \E file_data \in CommitBatches, raises \in BOOLEAN :
       LET load_raises == /\ run.processed_ids = {}
                          /\ table_exists
                          /\ LoadRaises(table_fields, table_rows)
           loaded == IF run.processed_ids = {} /\ table_exists /\ ~load_raises
                     THEN Range(Column(load_processed_data(table_fields,
                                                           table_rows),
                                       id_column))
                     ELSE run.processed_ids
           filtered == filter_by_processed(file_data, loaded)
           extracted == IF filtered.rows = <<>> THEN filtered
                        ELSE dropna_columns(filtered)
           before == TableState(table_exists, table_fields, table_rows)
       IN IF load_raises \/ raises
          THEN /\ run' = [run EXCEPT !.state = "raised",
                                     !.processed_ids = loaded]
               /\ UNCHANGED <<table_exists, table_fields, table_rows,
                              edit_rows, pc, cursor, calls, last, flt, key>>
          ELSE IF extracted.rows = <<>>
          THEN /\ run' = [run EXCEPT
                            !.unit = @ + 1, !.processed_ids = loaded,
                            !.file_ids = Column(file_data, id_column),
                            !.used_ids = loaded,
                            !.filtered_ids = Column(filtered, id_column)]
               /\ UNCHANGED <<table_exists, table_fields, table_rows,
                              edit_rows, pc, cursor, calls, last, flt, key>>
          ELSE /\ Store(extracted, FALSE)
               /\ UNCHANGED key
               /\ run' =
                    IF last'.kind = "error"
                    THEN [run EXCEPT !.state = "raised",
                                     !.processed_ids = loaded,
                                     !.file_ids = Column(file_data, id_column),
                                     !.used_ids = loaded,
                                     !.filtered_ids =
                                        Column(filtered, id_column),
                                     !.passed = extracted.cols,
                                     !.returned =
                                        drop_geometry_inplace(extracted.cols)]
                    ELSE [run EXCEPT
                            !.unit = @ + 1, !.processed_ids = loaded,
                            !.file_ids = Column(file_data, id_column),
                            !.used_ids = loaded,
                            !.filtered_ids = Column(filtered, id_column),
                            !.passed = extracted.cols,
                            !.returned =
                               drop_geometry_inplace(extracted.cols),
                            !.seen = Append(@, before),
                            !.committed =
                               Append(@, TableState(table_exists',
                                                    table_fields',
                                                    table_rows'))]

\* The loop over the files is exhausted.
RunEnd ==
  /\ run.state = "running"
  /\ run.unit > MaxUnits
  /\ run' = [run EXCEPT !.state = "finished"]
  /\ UNCHANGED <<table_exists, table_fields, table_rows, edit_rows, pc,
                 cursor, calls, last, flt, key>>

NextRun ==
  \/ ProcessSpatialFile
  \/ ProcessTableFile
  \/ RunEnd

SpecRun == InitRun /\ [][NextRun]_vars

\* ------------------------------------------------------ the spatial filter
\* polygon_filter[...]["polygon_id"] of the configuration.
polygon_id == 1

\* file_config["coordinates"]: the columns of the file that hold x and y.
coordinates == [d |-> "x", e |-> "y"]

\* df.rename(columns=mapping)
rename(df, mapping) ==
  LET To(c) == IF c \in DOMAIN mapping THEN mapping[c] ELSE c
      cols  == [i \in 1..Len(df.cols) |-> To(df.cols[i])]
  IN [cols |-> cols,
      rows |-> [i \in 1..Len(df.rows) |->
                  [ix  |-> df.rows[i].ix,
                   val |-> [c2 \in Range(cols) |->
                              df.rows[i].val[CHOOSE c \in Range(df.cols) :
                                               To(c) = c2]]]]]

\* A point geometry is the pair of its coordinates; the empty geometry is
\* the empty tuple. Whether the point built from two missing coordinates is
\* empty depends on the geometry library of the installation: nan_empty.
Point(x, y, nan_empty) ==
  IF x = Null /\ y = Null /\ nan_empty THEN <<>> ELSE <<x, y>>

is_empty(geometry) == geometry = <<>>

\* An add_geometry that keeps a geometry column the frame already has.
add_geometry_stale(in_df, nan_empty) ==
  LET cols == IF "geometry" \in Range(in_df.cols) THEN in_df.cols
              ELSE Append(in_df.cols, "geometry")
  IN [cols |-> cols,
      rows |-> [i \in 1..Len(in_df.rows) |->
                  [ix  |-> in_df.rows[i].ix,
                   val |-> [c \in Range(cols) |->
                              IF c \in Range(in_df.cols)
                              THEN in_df.rows[i].val[c]
                              ELSE Point(in_df.rows[i].val["x"],
                                         in_df.rows[i].val["y"], nan_empty)]]]]

\* geofilter.add_geometry: GeoDataFrame(in_df, geometry=points_from_xy(x, y))
add_geometry(in_df, nan_empty) ==
  LET cols == IF "geometry" \in Range(in_df.cols) THEN in_df.cols
              ELSE Append(in_df.cols, "geometry")
  IN [cols |-> cols,
      rows |-> [i \in 1..Len(in_df.rows) |->
                  [ix  |-> in_df.rows[i].ix,
                   val |-> [c \in Range(cols) |->
                              IF c = "geometry"
                              THEN Point(in_df.rows[i].val["x"],
                                         in_df.rows[i].val["y"], nan_empty)
                              ELSE in_df.rows[i].val[c]]]]]

\* in_df[~in_df.is_empty]
drop_empty(in_df) ==
  Filter(in_df, [i \in 1..Len(in_df.rows) |->
                   ~is_empty(in_df.rows[i].val["geometry"])])

\* x >= y taken for valid.
valid_mask_ge(in_df) ==
  [i \in 1..Len(in_df.rows) |->
     /\ in_df.rows[i].val["x"] # Null
     /\ in_df.rows[i].val["y"] # Null
     /\ in_df.rows[i].val["x"] >= in_df.rows[i].val["y"]]

\* in_df["x"] > in_df["y"]: a comparison with a missing value is False.
valid_mask(in_df) ==
  [i \in 1..Len(in_df.rows) |->
     /\ in_df.rows[i].val["x"] # Null
     /\ in_df.rows[i].val["y"] # Null
     /\ in_df.rows[i].val["x"] > in_df.rows[i].val["y"]]

\* point_xy_validation
point_xy_validation(in_df) ==
  LET df == drop_empty(in_df)
  IN [valid   |-> Filter(df, valid_mask(df)),
      invalid |-> Filter(df, Not(valid_mask(df)))]

\* A polygon is its identifier and its region, the set of the points that
\* intersect it.
intersects(geometry, polygon) ==
  /\ Len(geometry) = 2
  /\ geometry[1] # Null
  /\ geometry[2] # Null
  /\ geometry \in polygon.region

\* point_poly_intersect
point_poly_intersect(in_df, polygon) ==
  LET df == drop_empty(in_df)
  IN Filter(df, [i \in 1..Len(df.rows) |->
                   intersects(df.rows[i].val["geometry"], polygon)])

\* BaseExtractor.process_point_poly_intersect
process_point_poly_intersect(in_df, polygon) ==
  LET split == point_xy_validation(in_df)
  IN IF split.valid.rows = <<>> THEN split
     ELSE [valid   |-> point_poly_intersect(split.valid, polygon),
           invalid |-> split.invalid]

\* A swap that returns its input.
swap_none(in_df, nan_empty) == in_df

\* swap_xy: the names of the columns x and y are exchanged and the
\* geometry is built again.
swap_xy(in_df, nan_empty) ==
  add_geometry(rename(in_df, [x |-> "y", y |-> "x"]), nan_empty)

NoPolygon == [pid |-> 0, region |-> {}]

\* The selection of the polygons with the configured identifier.
select_polygon(polygon_df) ==
  SelectSeq(polygon_df, LAMBDA g : g.pid = polygon_id)

\* ArcpyGeofilter.load_polygon_filter
ArcpyGeofilter_load_polygon_filter(polygon_df) ==
  IF polygon_df = <<>> THEN [raised |-> TRUE, polygon |-> NoPolygon]
  ELSE IF Len(select_polygon(polygon_df)) # 1
  THEN [raised |-> TRUE, polygon |-> NoPolygon]
  ELSE [raised |-> FALSE, polygon |-> select_polygon(polygon_df)[1]]

\* GeoPandasGeofilter.load_polygon_filter: the selection is made only when
\* the file holds more than one polygon.
GeoPandasGeofilter_load_polygon_filter(polygon_df) ==
  IF polygon_df = <<>> THEN [raised |-> TRUE, polygon |-> NoPolygon]
  ELSE IF Len(polygon_df) > 1
  THEN IF Len(select_polygon(polygon_df)) # 1
       THEN [raised |-> TRUE, polygon |-> NoPolygon]
       ELSE [raised |-> FALSE, polygon |-> select_polygon(polygon_df)[1]]
  ELSE [raised |-> FALSE, polygon |-> polygon_df[1]]

\* geofilter.load_polygon_filter() of the configured geofilter class.
load_polygon_filter(geofilter, polygon_df) ==
  IF geofilter = "ArcpyGeofilter"
  THEN ArcpyGeofilter_load_polygon_filter(polygon_df)
  ELSE GeoPandasGeofilter_load_polygon_filter(polygon_df)

\* The points with both coordinates.
Points == (1..MaxCoord) \X (1..MaxCoord)

\* The polygons of the polygon source: one region holds every point, the
\* other a single point.
Polygons ==
  {[pid |-> p, region |-> r] :
     p \in 1..MaxPolygonId, r \in {Points, {<<MaxCoord, 1>>}}}

PolygonFiles == UNION {[1..n -> Polygons] : n \in 0..MaxPolygons}

\* The rows of a file with coordinates; 0 is a missing coordinate.
FileRecords ==
  {r \in [{"id", "d", "e"} -> 0..(MaxFilterKey + MaxCoord)] :
     /\ r["id"] \in 1..MaxFilterKey
     /\ r["d"] \in 0..MaxCoord
     /\ r["e"] \in 0..MaxCoord}

\* The non-empty files: extract_data returns before filter_data otherwise.
SpatialFiles ==
  {[cols |-> <<"id", "d", "e">>,
    rows |-> [i \in 1..Len(rs) |-> [ix |-> i, val |-> rs[i]]]] :
     rs \in UNION {[1..n -> FileRecords] : n \in 1..MaxRecords}}

\* The stored data filter_data is given: none, one row with the key 1, or
\* one row of a store without the key column.
DatabaseFrames ==
  {EmptyFrame,
   [cols |-> <<"id">>, rows |-> <<[ix |-> 1, val |-> [id |-> 1]]>>],
   [cols |-> <<"v">>, rows |-> <<[ix |-> 1, val |-> [v |-> 1]]>>]}

Geofilters == {"ArcpyGeofilter", "GeoPandasGeofilter"}

FilterStart(geofilter, nan_empty, polygon_df, database_data, file_data) ==
  [pc |-> "start", geofilter |-> geofilter, nan_empty |-> nan_empty,
   polygon_df |-> polygon_df, database_data |-> database_data,
   file_data |-> file_data, data |-> EmptyFrame, polygon |-> NoPolygon,
   geo_df |-> EmptyFrame, xy_valid |-> EmptyFrame, xy_invalid |-> EmptyFrame,
   valid_df |-> EmptyFrame, invalid_df |-> EmptyFrame,
   swapped_df |-> EmptyFrame, corrected_df |-> EmptyFrame,
   dropped_df |-> EmptyFrame, filtered_df |-> EmptyFrame,
   swaps |-> [i \in 1..Len(file_data.rows) |-> 0], log |-> <<>>]

InitFilter ==
  /\ NoTable
  /\ run = NoRun
  /\ key = NoKey
  /\ \E geofilter \in Geofilters, nan_empty \in BOOLEAN,
        polygon_df \in PolygonFiles, database_data \in DatabaseFrames,
        file_data \in SpatialFiles :
       flt = FilterStart(geofilter, nan_empty, polygon_df, database_data,
                         file_data)

FilterFrame == <<table_exists, table_fields, table_rows, edit_rows, pc,
                 cursor, calls, last, run, key>>

\* A filter that ignores no entry.
ignore_nothing(file_data, database_data) == file_data

\* filter_data 128-137: the rows of the file whose key is not stored; every
\* row when nothing is stored or the stored data has no key column.
ignore_present(file_data, database_data) ==
  IF database_data.rows # <<>> /\ id_column \in Range(database_data.cols)
  THEN Filter(file_data,
              Not(isin(Column(file_data, id_column),
                       Column(database_data, id_column))))
  ELSE file_data

\* filter_data 128-137: the entries already stored are ignored.
DropPresent ==
  /\ flt.pc = "start"
  /\ flt' = [flt EXCEPT
       !.pc = "polygon",
       !.data = ignore_present(flt.file_data, flt.database_data)]
  /\ UNCHANGED FilterFrame

\* filter_data 139: the polygon is loaded, or the assertion fails.
LoadPolygon ==
  /\ flt.pc = "polygon"
  /\ LET res == load_polygon_filter(flt.geofilter, flt.polygon_df)
     IN flt' = IF res.raised THEN [flt EXCEPT !.pc = "raised"]
               ELSE [flt EXCEPT !.pc = "geometry", !.polygon = res.polygon]
  /\ UNCHANGED FilterFrame

\* filter_data 142-147: the coordinate columns are renamed and the geometry
\* is added.
AddGeometry ==
  /\ flt.pc = "geometry"
  /\ flt' = [flt EXCEPT
       !.pc = "validate",
       !.geo_df = add_geometry(rename(flt.data, coordinates), flt.nan_empty)]
  /\ UNCHANGED FilterFrame

\* filter_data 149-153: the first validation and intersection.
Validate ==
  /\ flt.pc = "validate"
  /\ LET split == process_point_poly_intersect(flt.geo_df, flt.polygon)
     IN flt' = [flt EXCEPT
          !.pc = "correct",
          !.xy_valid = point_xy_validation(flt.geo_df).valid,
          !.xy_invalid = point_xy_validation(flt.geo_df).invalid,
          !.valid_df = split.valid,
          !.invalid_df = split.invalid,
          !.log = Append(@, <<Len(split.valid.rows), Len(split.invalid.rows)>>)]
  /\ UNCHANGED FilterFrame

\* filter_data 156-157: the invalid entries are swapped.
Swap ==
  /\ flt.pc = "correct"
  /\ Len(flt.invalid_df.rows) > 0
  /\ flt' = [flt EXCEPT
       !.pc = "revalidate",
       !.swapped_df = swap_xy(flt.invalid_df, flt.nan_empty),
       !.swaps = [i \in DOMAIN flt.swaps |->
                    IF \E j \in 1..Len(flt.invalid_df.rows) :
                         flt.invalid_df.rows[j].ix = i
                    THEN flt.swaps[i] + 1 ELSE flt.swaps[i]]]
  /\ UNCHANGED FilterFrame

\* filter_data 159-173: the swapped entries are validated and intersected
\* again; what is invalid now is ignored.
Revalidate ==
  /\ flt.pc = "revalidate"
  /\ LET split == process_point_poly_intersect(flt.swapped_df, flt.polygon)
     IN flt' = [flt EXCEPT
          !.pc = "done",
          !.corrected_df = split.valid,
          !.dropped_df = split.invalid,
          !.log = Append(Append(@, <<Len(split.valid.rows)>>),
                         <<Len(concat(flt.valid_df, split.valid).rows)>>),
          !.filtered_df = concat(flt.valid_df, split.valid)]
  /\ UNCHANGED FilterFrame

\* filter_data 168-173: nothing was invalid.
NoCorrection ==
  /\ flt.pc = "correct"
  /\ Len(flt.invalid_df.rows) = 0
  /\ flt' = [flt EXCEPT
       !.pc = "done",
       !.filtered_df = flt.valid_df,
       !.log = Append(@, <<Len(flt.valid_df.rows)>>)]
  /\ UNCHANGED FilterFrame

NextFilter ==
  \/ DropPresent
  \/ LoadPolygon
  \/ AddGeometry
  \/ Validate
  \/ Swap
  \/ Revalidate
  \/ NoCorrection

SpecFilter == InitFilter /\ [][NextFilter]_vars

\* ------------------------------------------ GeoPandasFileLoader (loaders.py)
\* The file of the GeoPandas loader: exists tells that it is on disk, df is
\* what read_file returns for it.
NoFile == [exists |-> FALSE, df |-> EmptyFrame]

\* The number 0 that fillna(0) writes; the integer 0 is the missing value.
FillZero == 0 - 1

\* DataFrame.empty
empty(df) == df.rows = <<>> \/ df.cols = <<>>

\* df.drop(c, axis=1)
drop_column(df, c) ==
  Project(df, SelectSeq(df.cols, LAMBDA d : d # c))

\* df.set_index(c): the values of column c become the index labels.
set_index(df, c) ==
  LET rest == SelectSeq(df.cols, LAMBDA d : d # c)
  IN [cols |-> rest,
      rows |-> [i \in 1..Len(df.rows) |->
                  [ix  |-> df.rows[i].val[c],
                   val |-> [d \in Range(rest) |-> df.rows[i].val[d]]]]]

\* df.reset_index(): the index labels become the first column, named c, and
\* the rows are numbered again.
reset_index(df, c) ==
  LET all == <<c>> \o df.cols
  IN [cols |-> all,
      rows |-> [i \in 1..Len(df.rows) |->
                  [ix  |-> i,
                   val |-> [d \in Range(all) |->
                              IF d = c THEN df.rows[i].ix
                              ELSE df.rows[i].val[d]]]]]

\* The index labels of df, in row order.
index(df) == [i \in 1..Len(df.rows) |-> df.rows[i].ix]

\* pd.Index.duplicated(labels, keep): with keep = "first" every occurrence
\* of a label after its first, with keep = "False" every occurrence of a label
\* that occurs more than once.
duplicated(labels, keep) ==
  [i \in 1..Len(labels) |->
     IF keep = "first" THEN \E j \in 1..(i - 1) : labels[j] = labels[i]
     ELSE \E j \in 1..Len(labels) : j # i /\ labels[j] = labels[i]]

\* loaders.py 672-677: the missing cells of the shared columns of the rows
\* with a unique key are filled from the first incoming row with that key.
fill_shared(unique_ids, present_ids, shared_cols) ==
  LET firsts == Filter(present_ids,
                       Not(duplicated(index(present_ids), "first")))
      Fill(r, c) ==
        IF r.val[c] # Null THEN r.val[c]
        ELSE IF \E j \in 1..Len(firsts.rows) : firsts.rows[j].ix = r.ix
        THEN firsts.rows[CHOOSE j \in 1..Len(firsts.rows) :
                           firsts.rows[j].ix = r.ix].val[c]
        ELSE Null
  IN [cols |-> unique_ids.cols,
      rows |-> [i \in 1..Len(unique_ids.rows) |->
                  [ix  |-> unique_ids.rows[i].ix,
                   val |-> [c \in Range(unique_ids.cols) |->
                              IF c \in Range(shared_cols)
                              THEN Fill(unique_ids.rows[i], c)
                              ELSE unique_ids.rows[i].val[c]]]]]

\* left.join(right, how="left"): for every row of left one row per row of
\* right with the same index label, or one row with NaN in right's columns.
join_left(left, right) ==
  LET all == left.cols \o right.cols
      Join(l, r) == [ix  |-> l.ix,
                     val |-> [c \in Range(all) |->
                                IF c \in Range(left.cols) THEN l.val[c]
                                ELSE r.val[c]]]
      Alone(l)   == [ix  |-> l.ix,
                     val |-> [c \in Range(all) |->
                                IF c \in Range(left.cols) THEN l.val[c]
                                ELSE Null]]
      Matches(l) == MaskSelect(right.rows,
                      [i \in 1..Len(right.rows) |-> right.rows[i].ix = l.ix])
      Rows(l)    == IF Matches(l) = <<>> THEN <<Alone(l)>>
                    ELSE [k \in 1..Len(Matches(l)) |-> Join(l, Matches(l)[k])]
  IN [cols |-> all,
      rows |-> Flatten([j \in 1..Len(left.rows) |-> Rows(left.rows[j])])]

\* The result of a step that may raise: the exception, "" when none, and
\* the frame.
Raised(error) == [error |-> error, df |-> EmptyFrame]
Returned(df) == [error |-> "", df |-> df]

\* loaders.py 660-693: the stored rows merged with the incoming rows whose
\* key is stored. join raises ValueError when the two frames share a column
\* and MergeError when validate="1:1" meets a repeated key.
merge_present(processed_data, present_ids) ==
  LET shared_cols == SelectSeq(processed_data.cols,
                       LAMBDA c : /\ c \in Range(present_ids.cols)
                                  /\ c # id_column
                                  /\ c # "geometry")
      stored   == set_index(processed_data, id_column)
      incoming == set_index(present_ids, id_column)
      dup_mask == duplicated(index(stored), "False")
      filled   == concat(Filter(stored, dup_mask),
                         fill_shared(Filter(stored, Not(dup_mask)), incoming,
                                     shared_cols))
      new_cols == SelectSeq(incoming.cols,
                    LAMBDA c : c \notin Range(shared_cols) /\ c # "geometry")
      firsts   == Filter(incoming, Not(duplicated(index(incoming), "first")))
  IN IF Len(shared_cols) > 1
     THEN IF Len(new_cols) > 1
          THEN IF \E i \in 1..Len(dup_mask) : dup_mask[i]
               THEN Raised("MergeError")
               ELSE Returned(reset_index(
                      join_left(filled, Project(firsts, new_cols)), id_column))
          ELSE Returned(reset_index(filled, id_column))
     ELSE IF Range(stored.cols) \cap Range(incoming.cols) # {}
          THEN Raised("ValueError")
          ELSE Returned(reset_index(join_left(stored, incoming), id_column))

\* loaders.py 654-697: the frame to write when stored data was read. The
\* key column is read from both frames first; a frame without it raises
\* KeyError.
merge_stored(in_df, processed_data) ==
  IF id_column \notin Range(in_df.cols)
     \/ id_column \notin Range(processed_data.cols)
  THEN Raised("KeyError")
  ELSE LET present == isin(Column(in_df, id_column),
                           Column(processed_data, id_column))
           present_ids == Filter(in_df, present)
           new_ids     == Filter(in_df, Not(present))
           merged == IF empty(present_ids) THEN Returned(processed_data)
                     ELSE merge_present(processed_data, present_ids)
       IN IF merged.error # "" THEN merged
          ELSE IF empty(new_ids) THEN merged
          ELSE Returned(concat(merged.df, new_ids))

\* loaders.py 699-707, without coord_cols in the configuration: a missing
\* column x or y is added with 0, a missing cell of them is filled with 0.
fill_xy(in_df) ==
  LET all == in_df.cols
               \o SelectSeq(<<"x", "y">>, LAMBDA c : c \notin Range(in_df.cols))
  IN [cols |-> all,
      rows |-> [i \in 1..Len(in_df.rows) |->
                  [ix  |-> in_df.rows[i].ix,
                   val |-> [c \in Range(all) |->
                              IF c \in {"x", "y"}
                              THEN IF c \in Range(in_df.cols)
                                      /\ in_df.rows[i].val[c] # Null
                                   THEN in_df.rows[i].val[c]
                                   ELSE FillZero
                              ELSE in_df.rows[i].val[c]]]]]

\* to_file(mode="w") and read_file: the rows lose their index labels, and
\* the frame read back has the column geometry after the other columns.
to_file(df) ==
  [exists |-> TRUE,
   df |-> [cols |-> SelectSeq(df.cols, LAMBDA c : c # "geometry")
                      \o SelectSeq(df.cols, LAMBDA c : c = "geometry"),
           rows |-> [i \in 1..Len(df.rows) |->
                       [ix |-> i, val |-> df.rows[i].val]]]]

\* GeoPandasFileLoader.load_processed_data
GeoPandas_load_processed_data(file) ==
  IF file.exists THEN file.df ELSE EmptyFrame

\* GeoPandasFileLoader.store_processed_data: the exception it ends with and
\* the file it leaves.
GeoPandas_store_processed_data(in_df, file) ==
  LET data == IF "Shape" \in Range(in_df.cols) THEN drop_column(in_df, "Shape")
              ELSE in_df
      processed_data == GeoPandas_load_processed_data(file)
      merged == IF empty(processed_data) THEN Returned(data)
                ELSE merge_stored(data, processed_data)
  IN IF merged.error # "" THEN [error |-> merged.error, file |-> file]
     ELSE [error |-> "",
           file  |-> to_file(add_geometry(fill_xy(merged.df), FALSE))]

\* ------------------------------------- store calls of either kind of loader
Loaders == {"ArcpyFileLoader", "GeoPandasFileLoader"}

\* The column lists of the batches: with and without the key column, with
\* the coordinates x and y that the spatial filter leaves, and with the
\* column w that no earlier batch had.
KeySchemas ==
  {<<"id", "v">>, <<"v">>, <<"id", "v", "x", "y">>, <<"id", "v", "w">>,
   <<"id", "v", "x", "y", "w">>}

\* The rows over schema; the spatial filter keeps a row only when its x is
\* greater than its y.
KeyRows(schema) ==
  {r \in [Range(schema) -> 0..(MaxKeyId + MaxKeyVal + MaxKeyCoord)] :
     /\ id_column \in Range(schema) => r[id_column] \in 1..MaxKeyId
     /\ "v" \in Range(schema) => r["v"] \in 0..MaxKeyVal
     /\ NewColumn \in Range(schema) => r[NewColumn] \in 0..MaxKeyVal
     /\ "x" \in Range(schema) =>
          /\ r["x"] \in 1..MaxKeyCoord
          /\ r["y"] \in 1..MaxKeyCoord
          /\ r["x"] > r["y"]}

\* The non-empty batches of at most MaxKeyBatch rows; a batch with
\* coordinates comes with the geometry column of the spatial filter.
KeyBatches ==
  UNION {{LET b == [cols |-> schema,
                    rows |-> [i \in 1..Len(rs) |-> [ix |-> i, val |-> rs[i]]]]
          IN IF "x" \in Range(schema) THEN add_geometry(b, FALSE) ELSE b :
            rs \in UNION {[1..n -> KeyRows(schema)] : n \in 1..MaxKeyBatch}} :
         schema \in KeySchemas}

\* The batches of the files without coordinates, which are the ones stored
\* in a table.
KeyTableBatches == {b \in KeyBatches : "x" \notin Range(b.cols)}

\* The stored data a sequence of calls starts from: none, or data written
\* without the key column, with rows or without.
KeyStarts ==
  {[exists |-> FALSE, fields |-> <<>>, rows |-> <<>>],
   [exists |-> TRUE, fields |-> <<"v">>, rows |-> <<>>],
   [exists |-> TRUE, fields |-> <<"v">>, rows |-> <<<<1>>>>]}

\* The stored data of the chosen loader.
StoredState ==
  IF key.loader = "ArcpyFileLoader"
  THEN TableState(table_exists, table_fields, table_rows)
  ELSE TableState(key.file.exists, key.file.df.cols, ValuesToList(key.file.df))

InitKey ==
  /\ edit_rows = <<>>
  /\ pc = "idle"
  /\ cursor = 0
  /\ calls = 0
  /\ last = NoCall
  /\ flt = NoFilter
  /\ run = NoRun
  /\ \E loader \in Loaders, start \in KeyStarts :
       /\ table_exists = (loader = "ArcpyFileLoader" /\ start.exists)
       /\ table_fields = IF loader = "ArcpyFileLoader" THEN start.fields
                         ELSE <<>>
       /\ table_rows = IF loader = "ArcpyFileLoader" THEN start.rows ELSE <<>>
       /\ key = [pc |-> "ready", loader |-> loader,
                 file |-> IF loader = "GeoPandasFileLoader" /\ start.exists
                          THEN [exists |-> TRUE,
                                df |-> load_processed_data(start.fields,
                                                           start.rows)]
                          ELSE NoFile,
                 in_df |-> EmptyFrame, error |-> "",
                 before |-> TableState(FALSE, <<>>, <<>>),
                 after |-> TableState(FALSE, <<>>, <<>>)]

\* ArcpyFileLoader.store_processed_data with a table as the target.
ArcpyStoreCall ==
  /\ key.pc = "ready"
  /\ key.loader = "ArcpyFileLoader"
  /\ calls < MaxCalls
  /\ \E in_df \in KeyTableBatches :
       /\ Store(in_df, FALSE)
       /\ key' = [key EXCEPT
            !.pc = "done", !.in_df = in_df, !.error = StoreError(in_df),
            !.before = TableState(table_exists, table_fields, table_rows),
            !.after = TableState(table_exists', table_fields', table_rows')]
  /\ UNCHANGED run

\* GeoPandasFileLoader.store_processed_data
GeoPandasStoreCall ==
  /\ key.pc = "ready"
  /\ key.loader = "GeoPandasFileLoader"
  /\ calls < MaxCalls
  /\ \E in_df \in KeyBatches :
       LET result == GeoPandas_store_processed_data(in_df, key.file)
       IN key' = [key EXCEPT
            !.pc = "done", !.in_df = in_df, !.error = result.error,
            !.file = result.file,
            !.before = StoredState,
            !.after = TableState(result.file.exists, result.file.df.cols,
                                 ValuesToList(result.file.df))]
  /\ calls' = calls + 1
  /\ UNCHANGED <<table_exists, table_fields, table_rows, edit_rows, pc,
                 cursor, last, flt, run>>

\* The caller goes on to its next call.
NextCall ==
  /\ key.pc = "done"
  /\ key' = [key EXCEPT !.pc = "ready"]
  /\ UNCHANGED <<table_exists, table_fields, table_rows, edit_rows, pc,
                 cursor, calls, last, flt, run>>

NextKey == ArcpyStoreCall \/ GeoPandasStoreCall \/ NextCall

SpecKey == InitKey /\ [][NextKey]_vars

\* ------------------- the commits of the two loaders, step by step
\* No write is under way; file is the file that GeoPandasFileLoader
\* stores, before the file as the last call found it and data the frame
\* that the call handed to to_file.
NoWrite(loader) ==
  [pc |-> "closed", loader |-> loader, file |-> NoFile, before |-> NoFile,
   data |-> EmptyFrame, error |-> ""]

InitCommit ==
  /\ NoTable
  /\ flt = NoFilter
  /\ run = NoRun
  /\ \E loader \in Loaders : key = NoWrite(loader)

CommitFrame == <<table_exists, table_fields, table_rows, edit_rows, pc,
                 cursor, last, flt, run>>

\* GeoPandasFileLoader.store_processed_data up to the call of to_file
\* (loaders.py 631-715). An exception before the call leaves the file as
\* it was. to_file(filename, mode="w") writes to the stored file itself:
\* the file is opened for writing, which discards its records, and the
\* records of the frame follow one by one; store_processed_data keeps no
\* copy of the old file and writes to no other file first.
OpenWrite ==
  /\ key.pc = "closed"
  /\ key.loader = "GeoPandasFileLoader"
  /\ calls < MaxCalls
  /\ \E in_df \in KeyBatches :
       LET result == GeoPandas_store_processed_data(in_df, key.file)
       IN key' =
            IF result.error # ""
            THEN [key EXCEPT !.error = result.error, !.before = key.file,
                             !.data = key.file.df]
            ELSE [key EXCEPT !.pc = "writing", !.error = "",
                    !.before = key.file, !.data = result.file.df,
                    !.file = [exists |-> TRUE,
                              df |-> [cols |-> result.file.df.cols,
                                      rows |-> <<>>]]]
  /\ calls' = calls + 1
  /\ UNCHANGED CommitFrame

\* to_file writes the next record of the frame.
WriteRow ==
  /\ key.pc = "writing"
  /\ Len(key.file.df.rows) < Len(key.data.rows)
  /\ key' = [key EXCEPT !.file.df.rows =
                Append(@, key.data.rows[Len(@) + 1])]
  /\ UNCHANGED <<CommitFrame, calls>>

\* to_file wrote every record and returns.
CloseWrite ==
  /\ key.pc = "writing"
  /\ Len(key.file.df.rows) = Len(key.data.rows)
  /\ key' = [key EXCEPT !.pc = "closed"]
  /\ UNCHANGED <<CommitFrame, calls>>

\* An exception leaves to_file (the disk is full, the process is
\* interrupted): the file keeps the records written so far.
WriteAbort ==
  /\ key.pc = "writing"
  /\ key' = [key EXCEPT !.pc = "closed", !.error = "OSError"]
  /\ UNCHANGED <<CommitFrame, calls>>

NextCommit ==
  \/ BeginStore
  \/ UpdateRow
  \/ EndUpdates
  \/ InsertRow
  \/ EditorExit
  \/ EditorAbort
  \/ OpenWrite
  \/ WriteRow
  \/ CloseWrite
  \/ WriteAbort

SpecCommit == InitCommit /\ [][NextCommit]_vars

\* --------------------------------- the representations of a missing value
\* float("nan"). In the frames of this section Null is None and NaN is the
\* other representation of a missing value.
NaN == 0 - 2

isna(v) == v = Null \/ v = NaN

\* Python's ==: nan is not equal to itself.
py_eq(a, b) == a = b /\ a # NaN

\* df.replace({float("nan"): None})
replace_nan(df) ==
  [cols |-> df.cols,
   rows |-> [i \in 1..Len(df.rows) |->
               [ix  |-> df.rows[i].ix,
                val |-> [c \in Range(df.cols) |->
                           IF df.rows[i].val[c] = NaN THEN Null
                           ELSE df.rows[i].val[c]]]]]

\* pd.DataFrame(data, columns=table_fields) of load_processed_data: a column
\* that holds a number becomes a float column, where None is stored as NaN;
\* a column of None alone stays an object column.
from_cursor(fields, rows) ==
  LET Numeric(j) == \E i \in 1..Len(rows) : rows[i][j] # Null
  IN [cols |-> fields,
      rows |-> [i \in 1..Len(rows) |->
                  [ix  |-> i,
                   val |-> [c \in Range(fields) |->
                              LET j == IndexOf(fields, c)
                              IN IF rows[i][j] = Null /\ Numeric(j) THEN NaN
                                 ELSE rows[i][j]]]]]

\* The kinds of entry ArcpyFileLoader stores.
EntryTypes == {"table", "featureclass"}

NullFields == <<"id", "v", "w">>

\* The rows of a stored entry, as the cursor returns them: NULL is None.
NullStoredRows ==
  {r \in [1..Len(NullFields) -> 0..(MaxNullKey + MaxNullVal)] :
     /\ r[1] \in 1..MaxNullKey
     /\ \A j \in 2..Len(NullFields) : r[j] \in 0..MaxNullVal}

NullStored ==
  UNION {[1..n -> NullStoredRows] : n \in 1..MaxNullRows}

\* The batches as the file readers return them: a missing cell is NaN.
NullBatches ==
  {[cols |-> <<"id", "v">>,
    rows |-> [i \in 1..Len(rs) |-> [ix |-> i, val |-> rs[i]]]] :
     rs \in UNION {[1..n -> {r \in [{"id", "v"} ->
                                      {NaN} \cup 1..(MaxNullKey + MaxNullVal)] :
                               /\ r["id"] \in 1..MaxNullKey
                               /\ r["v"] \in {NaN} \cup 1..MaxNullVal}] :
                   n \in 1..MaxNullRows}}

InitNull ==
  /\ NoTable
  /\ flt = NoFilter
  /\ run = NoRun
  /\ \E entry \in EntryTypes, rows \in NullStored, in_df \in NullBatches :
       key = [pc |-> "exists", entry |-> entry, rows |-> rows,
              in_df |-> in_df, processed_data |-> EmptyFrame,
              at_classify |-> <<>>, at_merge |-> <<>>]

NullFrame == <<table_exists, table_fields, table_rows, edit_rows, pc,
               cursor, calls, last, flt, run>>

\* storeTable 494-495 and storeFeatureClass 373-375: the stored entry is
\* loaded.
LoadStored ==
  /\ key.pc = "exists"
  /\ key' = [key EXCEPT !.pc = "loaded",
                        !.processed_data = from_cursor(NullFields, key.rows)]
  /\ UNCHANGED NullFrame

\* storeTable 496-504 and storeFeatureClass 377-382: the masks of the
\* classification are computed.
ClassifyRows ==
  /\ key.pc = "loaded"
  /\ key' = [key EXCEPT
       !.pc = IF key.entry = "featureclass" THEN "replace" ELSE "merge",
       !.at_classify = <<key.in_df, key.processed_data>>]
  /\ UNCHANGED NullFrame

\* storeFeatureClass 384: in_df.replace({float("nan"): None})
ReplaceNaN ==
  /\ key.pc = "replace"
  /\ key' = [key EXCEPT !.pc = "merge", !.in_df = replace_nan(key.in_df)]
  /\ UNCHANGED NullFrame

\* storeTable 503-582 and storeFeatureClass 386-447: the frames the merge
\* works on.
MergeRows ==
  /\ key.pc = "merge"
  /\ key' = [key EXCEPT !.pc = "merged",
                        !.at_merge = <<key.in_df, key.processed_data>>]
  /\ UNCHANGED NullFrame

NextNull == LoadStored \/ ClassifyRows \/ ReplaceNaN \/ MergeRows

SpecNull == InitNull /\ [][NextNull]_vars

\* ------------------------------ the extractors and the loaders of the APIs
\* ArcPyExtractor.create_point_geometry: the value of a cell of the column
\* Shape, and of a cell of the column geometry.
PointGeometry == 1

shape_column == "Shape"

\* The extractors of api_extractors.py and the loaders of api_loaders.py
\* that an entry of config["apis"] names, and "None" for an entry without.
ApiExtractors == {"None", "ArcPyExtractor", "GeoPandasExtractor"}
ApiLoaders == {"None", "ArcpyLoader", "GeoPandasLoader"}

\* The column lists of the data that an API returns, the geometry apart.
ApiSchemas == {<<"id", "v">>, <<"v", "id", "w">>}

ApiCellValues(c) ==
  IF c = id_column THEN 1..MaxApiKey
  ELSE IF c = shape_column THEN {PointGeometry}
  ELSE IF c = "geometry" THEN {PointGeometry}
  ELSE IF c = "w" THEN {MaxApiVal}
  ELSE 0..MaxApiVal

ApiRowsOf(schema) ==
  {r \in [Range(schema) -> 0..(MaxApiKey + MaxApiVal + PointGeometry)] :
     \A c \in Range(schema) : r[c] \in ApiCellValues(c)}

\* The frames over schema of least to MaxApiRows rows, with the default
\* index.
ApiFrames(schema, least) ==
  {[cols |-> schema,
    rows |-> [i \in 1..Len(rs) |-> [ix |-> i, val |-> rs[i]]]] :
     rs \in UNION {[1..n -> ApiRowsOf(schema)] : n \in least..MaxApiRows}}

\* ArcPyExtractor.extract_data: a plain DataFrame. When a row of the data
\* has a geometry (api_extractors.py 102) the geometries become the first
\* column, Shape; otherwise, and so for data without rows, the column
\* geometry is dropped and the frame has no column Shape.
ArcPyExtractor_extract_data ==
  UNION {ApiFrames(<<shape_column>> \o s, 1) \cup ApiFrames(s, 0) :
           s \in ApiSchemas}

\* GeoPandasExtractor.extract_data: the GeoDataFrame that read_file
\* returns, with the column geometry.
GeoPandasExtractor_extract_data ==
  UNION {ApiFrames(s \o <<"geometry">>, 0) : s \in ApiSchemas}

\* What a call of store_data ends with: the exception it raises, "" when
\* it returns, and the store it leaves.
StoreResult(error, exists, fields, rows) ==
  [error |-> error, exists |-> exists, fields |-> fields, rows |-> rows]

\* ArcpyLoader.addTableFields: the non-OID fields after the columns of
\* in_df that the table lacks were added, the column Shape excepted.
ArcpyLoader_addTableFields(fields, in_df) ==
  fields \o SelectSeq(in_df.cols,
                      LAMBDA c : c \notin Range(fields) /\ c # shape_column)

\* ArcpyLoader.load_processed_data: the rows over the non-OID fields, with
\* the default index.
ArcpyLoader_load_processed_data(fields, rows) ==
  load_processed_data(fields, rows)

\* updateRow and insertRow raise when the row has not one value for each
\* field of the cursor.
CursorRaises(rows, fields, ulist, ufields, mask, ilist) ==
  \/ /\ Len(ulist) > 0
     /\ \E i \in 1..Len(rows) : mask[i] /\ Len(ulist[i]) # Len(ufields)
  \/ \E i \in 1..Len(ilist) : Len(ilist[i]) # Len(fields)

\* ArcpyLoader.modifyDatabase: the UpdateCursor over update_fields writes
\* update_list[i] to the masked row i by position and leaves the other
\* fields of the row; the InsertCursor over all fields appends insert_list.
\* An exception of a cursor leaves the Editor block, and the rows are those
\* committed before it.
ArcpyLoader_modifyDatabase(rows, fields, ulist, ufields, mask, ilist) ==
  LET Updated(i) ==
        [j \in 1..Len(fields) |->
           IF fields[j] \in Range(ufields)
           THEN ulist[i][IndexOf(ufields, fields[j])]
           ELSE rows[i][j]]
      edited ==
        (IF Len(ulist) > 0
         THEN [i \in 1..Len(rows) |-> IF mask[i] THEN Updated(i) ELSE rows[i]]
         ELSE rows) \o ilist
  IN IF CursorRaises(rows, fields, ulist, ufields, mask, ilist)
     THEN StoreResult("RuntimeError", TRUE, fields,
                      EditorSession(rows, <<>>))
     ELSE StoreResult("", TRUE, fields, edited)

\* ArcpyLoader.storeTable: the plan is that of ArcpyFileLoader.storeTable,
\* but the fields added are those of in_df and the rows to insert are
\* insert_df.values.tolist(), in the column order of insert_df.
ArcpyLoader_storeTable(in_df, stored) ==
  IF ~stored.exists
  THEN LET fields == ArcpyLoader_addTableFields(<<>>, in_df)
       IN ArcpyLoader_modifyDatabase(<<>>, fields, <<>>, <<>>, <<>>,
                                     ValuesToList(in_df))
  ELSE IF id_column \notin Range(stored.fields)
          \/ id_column \notin Range(in_df.cols)
  THEN StoreResult("KeyError", TRUE, stored.fields, stored.rows)
  ELSE IF LoadRaises(stored.fields, stored.rows)
  THEN StoreResult("TypeError", TRUE, stored.fields, stored.rows)
  ELSE LET processed_data ==
             ArcpyLoader_load_processed_data(stored.fields, stored.rows)
           plan   == storeTable(in_df, processed_data)
           fields == ArcpyLoader_addTableFields(stored.fields, in_df)
       IN ArcpyLoader_modifyDatabase(
            Widen(stored.rows, stored.fields, fields), fields,
            plan.update_list, fields, plan.update_mask,
            ValuesToList(plan.insert_df))

\* update_data.update(current_cols_df) raises ValueError when the keys of
\* current_cols_df repeat and are not the keys of update_data, row by row.
UpdateRaises(update_data, current_cols) ==
  /\ Column(current_cols, id_column) # Column(update_data, id_column)
  /\ \E i, k \in 1..Len(current_cols.rows) :
       /\ i # k
       /\ current_cols.rows[i].val[id_column]
            = current_cols.rows[k].val[id_column]

\* storeFeatureClass 205-211: set_index(id), update, reset_index. Every
\* stored row takes the non-None cells of the candidate with its key; the
\* key column comes first and the index is the default one.
ArcpyLoader_update(update_data, current_cols) ==
  LET cols == <<id_column>>
                \o SelectSeq(update_data.cols, LAMBDA c : c # id_column)
      same == Column(current_cols, id_column)
                = Column(update_data, id_column)
      Has(j) == \/ same
                \/ \E i \in 1..Len(current_cols.rows) :
                     current_cols.rows[i].val[id_column]
                       = update_data.rows[j].val[id_column]
      Cand(j) == IF same THEN j
                 ELSE CHOOSE i \in 1..Len(current_cols.rows) :
                        current_cols.rows[i].val[id_column]
                          = update_data.rows[j].val[id_column]
      Cell(j, c) ==
        IF /\ c # id_column
           /\ c \in Range(current_cols.cols)
           /\ Has(j)
           /\ current_cols.rows[Cand(j)].val[c] # Null
        THEN current_cols.rows[Cand(j)].val[c]
        ELSE update_data.rows[j].val[c]
  IN [cols |-> cols,
      rows |-> [j \in 1..Len(update_data.rows) |->
                  [ix  |-> j,
                   val |-> [c \in Range(cols) |-> Cell(j, c)]]]]

\* ArcpyLoader.storeFeatureClass
ArcpyLoader_storeFeatureClass(in_df, stored) ==
  IF ~stored.exists
  THEN LET fields == ArcpyLoader_addTableFields(<<shape_column>>, in_df)
       IN ArcpyLoader_modifyDatabase(<<>>, fields, <<>>, <<>>, <<>>,
                                     ValuesToList(in_df))
  ELSE IF id_column \notin Range(stored.fields)
          \/ id_column \notin Range(in_df.cols)
  THEN StoreResult("KeyError", TRUE, stored.fields, stored.rows)
  ELSE IF LoadRaises(stored.fields, stored.rows)
  THEN StoreResult("TypeError", TRUE, stored.fields, stored.rows)
  ELSE LET processed_data ==
             ArcpyLoader_load_processed_data(stored.fields, stored.rows)
           present    == present_id_mask(in_df, processed_data)
           mask       == update_mask(in_df, processed_data)
           upd        == update_df(in_df, present)
           ins        == insert_df(in_df, present, processed_data)
           shared     == shared_columns(upd, processed_data)
           not_shared == not_shared_columns(upd, processed_data)
           cur        == current_cols_df(upd, shared)
           new_cols   == new_cols_df(upd, not_shared)
           upd_shared == IF Len(shared) > 1
                         THEN ArcpyLoader_update(processed_data, cur)
                         ELSE processed_data
           upd_data   == IF Len(not_shared) > 1
                         THEN merge_left(upd_shared, new_cols, id_column)
                         ELSE upd_shared
           update_data == IF shape_column \in Range(upd_data.cols)
                          THEN drop_column(upd_data, shape_column)
                          ELSE upd_data
           fields     == ArcpyLoader_addTableFields(stored.fields, in_df)
           update_fields ==
             SelectSeq(fields, LAMBDA c : c # shape_column)
       IN IF Len(shared) > 1 /\ UpdateRaises(processed_data, cur)
          THEN StoreResult("ValueError", TRUE, stored.fields, stored.rows)
          ELSE ArcpyLoader_modifyDatabase(
                 Widen(stored.rows, stored.fields, fields), fields,
                 ValuesToList(update_data), update_fields, mask,
                 ValuesToList(ins))

\* ArcpyLoader.store_data
ArcpyLoader_store_data(entry_type, in_df, stored) ==
  IF entry_type = "featureclass"
  THEN ArcpyLoader_storeFeatureClass(in_df, stored)
  ELSE ArcpyLoader_storeTable(in_df, stored)

\* GeoPandasLoader.store_data: nothing is done when the file is stored;
\* otherwise in_gdf.to_file writes it, which raises AttributeError for the
\* plain DataFrame of ArcPyExtractor, which has no to_file. geo tells that
\* in_gdf is a GeoDataFrame.
GeoPandasLoader_store_data(in_gdf, geo, file) ==
  IF file.exists THEN [error |-> "", file |-> file]
  ELSE IF ~geo THEN [error |-> "AttributeError", file |-> file]
  ELSE [error |-> "", file |-> to_file(in_gdf)]

\* ------------------------------- the scrapers and the APIs of process_data
\* The ways the body of a try statement ends: it returns, or it raises an
\* exception of one of the three branches of BaseException that matter
\* here (Exception; KeyboardInterrupt and SystemExit are not Exceptions).
Raises == {"Exception", "KeyboardInterrupt", "SystemExit"}
Outcomes == {"returned"} \cup Raises

\* except Exception: the handler that lets KeyboardInterrupt and SystemExit
\* through.
except_Exception(outcome) == outcome = "Exception"

\* except BaseException (process_data.py 101, 135): the handler catches
\* whatever the body raises.
except_BaseException(outcome) == outcome \in Raises

\* config["apis"]: an entry names an extractor and a loader, or has None
\* for either. The entries are those of a configuration that load_config
\* validated, so the url that the messages of the loops read is present.
ApiConfigs == [api_extractor : ApiExtractors, api_loader : ApiLoaders]

\* The lists config["scrapers"] (its length) and config["apis"].
ScraperLists == 0..MaxScrapers
ApiLists == UNION {[1..n -> ApiConfigs] : n \in 0..MaxApis}

\* One entry of the record of a run: the unit that was begun, how its body
\* ended and the warning that the logger wrote, "" when none.
Ran(kind, unit, outcome, warning) ==
  [kind |-> kind, unit |-> unit, outcome |-> outcome, warning |-> warning]

\* data_folder tells that config["data_folder"] names an existing
\* directory; entry_type is the arcpy_config["entry_type"] of the entry that
\* the ArcpyLoader of the APIs stores, kept in table_exists, table_fields
\* and table_rows; file is the file of the GeoPandasLoader of the APIs. No
\* entry and no file is stored when the run begins.
InitUnits ==
  /\ NoTable
  /\ flt = NoFilter
  /\ key = NoKey
  /\ \E scrapers \in ScraperLists, apis \in ApiLists,
        data_folder \in BOOLEAN, entry_type \in EntryTypes :
       run = [phase |-> "scrapers", unit |-> 1, scrapers |-> scrapers,
              apis |-> apis, data_folder |-> data_folder,
              entry_type |-> entry_type, file |-> NoFile, ran |-> <<>>,
              error |-> ""]

ApiFrame == <<edit_rows, pc, cursor, calls, last, flt, key>>

UnitsFrame == <<table_exists, table_fields, table_rows, edit_rows, pc,
                cursor, calls, last, flt, key>>

\* ScraperPCR.download_archive: whether a turn of a scraper made a folder
\* for an archive under config["data_folder"]. It makes one with
\* folder_path.mkdir(parents=True, exist_ok=True) when the page names an
\* archive whose folder is not there, before it downloads the archive, and
\* none when get_links or the page gave no archive.
download_archive == BOOLEAN

\* process_data.py 92-103: one turn of the loop over config["scrapers"];
\* outcome is how the construction of the scraper and scrape_files end.
\* The folder that download_archive made is there whichever way the turn
\* ends.
RunScraper ==
  /\ run.phase = "scrapers"
  /\ run.unit <= run.scrapers
  /\ \E outcome \in Outcomes, creates \in download_archive :
       run' = IF outcome = "returned"
              THEN [run EXCEPT !.unit = @ + 1,
                      !.data_folder = @ \/ creates,
                      !.ran = Append(@, Ran("scraper", run.unit, outcome, ""))]
              ELSE IF except_BaseException(outcome)
              THEN [run EXCEPT !.unit = @ + 1,
                      !.data_folder = @ \/ creates,
                      !.ran = Append(@, Ran("scraper", run.unit, outcome,
                                            "Exception"))]
              ELSE [run EXCEPT !.phase = "raised", !.error = outcome,
                      !.data_folder = @ \/ creates,
                      !.ran = Append(@, Ran("scraper", run.unit, outcome, ""))]
  /\ UNCHANGED UnitsFrame

\* The loop over config["scrapers"] is exhausted.
ScrapersEnd ==
  /\ run.phase = "scrapers"
  /\ run.unit > run.scrapers
  /\ run' = [run EXCEPT !.phase = "apis", !.unit = 1]
  /\ UNCHANGED UnitsFrame

\* What store_data of the loader of api_config does with data: the
\* exception it raises, "" when it returns, and the table and the file
\* that it leaves. t and f are what the store_data of the loader returns.
ArcpyStored(t, file) ==
  [error |-> t.error, table |-> TableState(t.exists, t.fields, t.rows),
   file |-> file]

GeoPandasStored(f, stored) ==
  [error |-> f.error, table |-> stored, file |-> f.file]

store_data(api_config, entry_type, data, stored, file) ==
  IF api_config.api_loader = "ArcpyLoader"
  THEN ArcpyStored(ArcpyLoader_store_data(entry_type, data, stored), file)
  ELSE GeoPandasStored(
         GeoPandasLoader_store_data(
           data, api_config.api_extractor = "GeoPandasExtractor", file),
         stored)

\* What an exception of the environment inside store_data may leave,
\* where result is what store_data does when the environment raises
\* nothing. Before the entry is touched the stores are as they were. After
\* store_data wrote the store (in addTableRelation, or on the way back)
\* they are those of result. In between, ArcpyLoader creates a missing
\* entry and addTableFields adds the fields one by one, both outside the
\* Editor block: the entry exists with the first k added fields, and with
\* all of them when the exception leaves the Editor block; the rows are
\* the committed ones. These points come before the cursors, whose own
\* exception is the RuntimeError of result. GeoPandasLoader writes a
\* missing file with to_file, which leaves the first k records.
store_data_raised(api_config, entry_type, data, stored, file, result) ==
  LET base == IF stored.exists THEN stored.fields
              ELSE IF entry_type = "featureclass" THEN <<shape_column>>
              ELSE <<>>
      Built(k) ==
        LET fields == SubSeq(result.table.fields, 1, Len(base) + k)
        IN [table |-> TableState(TRUE, fields,
                        EditorSession(Widen(stored.rows, stored.fields,
                                            fields),
                                      result.table.rows)),
            file |-> file]
      Written(k) ==
        [table |-> stored,
         file |-> [exists |-> TRUE,
                   df |-> [cols |-> result.file.df.cols,
                           rows |-> SubSeq(result.file.df.rows, 1, k)]]]
  IN {[table |-> stored, file |-> file]}
       \cup (IF result.error = ""
             THEN {[table |-> result.table, file |-> result.file]}
             ELSE {})
       \cup (IF api_config.api_loader = "ArcpyLoader"
             THEN IF result.error \in {"", "RuntimeError"}
                  THEN {Built(k) :
                          k \in 0..(Len(result.table.fields) - Len(base))}
                  ELSE {}
             ELSE IF result.error = "" /\ ~file.exists
                  THEN {Written(k) : k \in 0..Len(data.rows)}
                  ELSE {})

\* process_data.py 117-137: the end of a turn whose body ended with ended
\* and left the stores of left. The handler catches what the body raised
\* and the loop goes on.
EndApi(ended, left) ==
  /\ run' =
       IF ended = "returned"
       THEN [run EXCEPT !.unit = @ + 1, !.file = left.file,
               !.ran = Append(@, Ran("api", run.unit, ended, ""))]
       ELSE IF except_BaseException(ended)
       THEN [run EXCEPT !.unit = @ + 1, !.file = left.file,
               !.ran = Append(@, Ran("api", run.unit, ended, "Exception"))]
       ELSE [run EXCEPT !.phase = "raised", !.error = ended,
               !.file = left.file,
               !.ran = Append(@, Ran("api", run.unit, ended, ""))]
  /\ table_exists' = left.table.exists
  /\ table_fields' = left.table.fields
  /\ table_rows' = left.table.rows

\* process_data.py 131-133: store_data was called with data and the
\* environment lets it end with outcome; result is what store_data does
\* when the environment raises nothing, and an exception of store_data's
\* own is an Exception. When the environment raises, the stores are left
\* as they are at the point where it does.
StoreApi(api_config, outcome, data, stored, result) ==
  IF outcome = "returned"
  THEN EndApi(IF result.error # "" THEN "Exception" ELSE outcome, result)
  ELSE \E left \in store_data_raised(api_config, run.entry_type, data,
                                     stored, run.file, result) :
         EndApi(outcome, left)

\* process_data.py 105-137: one turn of the loop over config["apis"]. An
\* entry without extractor or without loader is skipped with a warning.
\* Otherwise the body raises what its environment raises before store_data
\* is called (in the construction of the extractor or of the loader, or in
\* extract_data), or extract_data returns data and store_data is called
\* with it.
RunApi ==
  /\ run.phase = "apis"
  /\ run.unit <= Len(run.apis)
  /\ LET api_config == run.apis[run.unit]
         skipped == \/ api_config.api_extractor = "None"
                    \/ api_config.api_loader = "None"
         stored  == TableState(table_exists, table_fields, table_rows)
     IN \/ /\ skipped
           /\ run' = [run EXCEPT !.unit = @ + 1,
                        !.ran = Append(@, Ran("api", run.unit, "returned",
                                              "Skipped"))]
           /\ UNCHANGED <<table_exists, table_fields, table_rows>>
        \/ /\ ~skipped
           /\ \E outcome \in Raises :
                EndApi(outcome, [table |-> stored, file |-> run.file])
        \/ /\ ~skipped
           /\ \E outcome \in Outcomes,
                 data \in IF api_config.api_extractor = "GeoPandasExtractor"
                          THEN GeoPandasExtractor_extract_data
                          ELSE ArcPyExtractor_extract_data :
                StoreApi(api_config, outcome, data, stored,
                         store_data(api_config, run.entry_type, data, stored,
                                    run.file))
  /\ UNCHANGED ApiFrame

\* process_data.py 139-144: the loop over config["apis"] is exhausted and
\* the directories of the data folder are counted with
\* next(os.walk(config["data_folder"])), which raises StopIteration when the
\* folder does not exist; otherwise the walk over the data folder begins.
ApisEnd ==
  /\ run.phase = "apis"
  /\ run.unit > Len(run.apis)
  /\ run' = IF run.data_folder
            THEN [run EXCEPT !.phase = "files", !.unit = 1]
            ELSE [run EXCEPT !.phase = "raised", !.error = "StopIteration"]
  /\ UNCHANGED UnitsFrame

NextUnits ==
  \/ RunScraper
  \/ ScrapersEnd
  \/ RunApi
  \/ ApisEnd

SpecUnits == InitUnits /\ [][NextUnits]_vars

\* ------------------------------------ the walk of process_data over the data
\* The names of the data files, without extension.
Names == {"a", "b", "c"}

\* A name that config["data_files"] has no entry for.
NoConfig == [configured |-> FALSE]

\* The entries of config["data_files"]: coordinates tells that the entry
\* names coordinate columns, loader that it names a loader.
FileConfigs ==
  [configured : {TRUE}, coordinates : BOOLEAN, file_order : 0..MaxOrder,
   loader : BOOLEAN]

\* What sort_files ends with for a name without configuration:
\* config["data_files"][filename] raises KeyError.
KeyError == 0 - 1

\* The sort key without the lower bound 1 for the files without coordinates.
sort_files_unclamped(filename, data_files) ==
  IF data_files[filename].configured /\ data_files[filename].coordinates
  THEN 0
  ELSE IF ~data_files[filename].configured THEN KeyError
  ELSE data_files[filename].file_order

\* sort_files(filename, config): 0 for a file with coordinates, otherwise
\* max(1, file_order); data_files is config["data_files"].
sort_files(filename, data_files) ==
  IF data_files[filename].configured /\ data_files[filename].coordinates
  THEN 0
  ELSE IF ~data_files[filename].configured THEN KeyError
  ELSE IF data_files[filename].file_order > 1
  THEN data_files[filename].file_order
  ELSE 1

\* filenames.sort(key=...), with keys[i] the sort key of filenames[i]: the
\* sort is stable, names with the same sort key keep the order of the
\* listing.
sort(filenames, keys) ==
  LET Place(i) ==
        1 + Cardinality({j \in 1..Len(filenames) :
                           \/ keys[j] < keys[i]
                           \/ keys[j] = keys[i] /\ j < i})
  IN [p \in 1..Len(filenames) |->
        filenames[CHOOSE i \in 1..Len(filenames) : Place(i) = p]]

\* The listings of a directory that os.walk yields: the names of its
\* files, in any order.
Listings ==
  {l \in UNION {[1..n -> Names] : n \in 0..MaxFiles} :
     \A i, j \in 1..Len(l) : i # j => l[i] # l[j]}

\* The ways the processing of one file ends: extract_data or the store
\* raises, extract_data returns an empty frame, or the data is stored.
FileOutcomes == {"raised", "empty", "stored"}

\* One entry of the record of a directory: the file, what the loop did
\* with it and the warning that the logger wrote, "" when none.
Did(filename, outcome, warning) ==
  [filename |-> filename, outcome |-> outcome, warning |-> warning]

\* The walk starts after the directories of an existing data folder were
\* counted (process_data.py 141).
InitWalk ==
  /\ NoTable
  /\ flt = NoFilter
  /\ key = NoKey
  /\ \E data_files \in [Names -> FileConfigs \cup {NoConfig}] :
       run = [phase |-> "walk", dir |-> 1, data_files |-> data_files,
              listing |-> <<>>, filenames |-> <<>>, file |-> 1,
              did |-> <<>>, error |-> ""]

\* process_data.py 144-162: os.walk yields the next directory. A directory
\* without files is passed over; the names are sorted, which raises when
\* sort_files does; a directory whose first file has no coordinates is
\* passed over.
WalkDirectory ==
  /\ run.phase = "walk"
  /\ run.dir <= MaxDirs
  /\ \E listing \in Listings :
       LET keys == [i \in 1..Len(listing) |->
                      sort_files(listing[i], run.data_files)]
           filenames == sort(listing, keys)
       IN run' =
            IF listing = <<>>
            THEN [run EXCEPT !.dir = @ + 1, !.listing = listing,
                             !.filenames = <<>>, !.did = <<>>]
            ELSE IF \E i \in 1..Len(listing) : keys[i] = KeyError
            THEN [run EXCEPT !.phase = "raised", !.error = "KeyError",
                             !.listing = listing, !.filenames = <<>>,
                             !.did = <<>>]
            ELSE IF ~run.data_files[filenames[1]].coordinates
            THEN [run EXCEPT !.dir = @ + 1, !.listing = listing,
                             !.filenames = filenames, !.did = <<>>]
            ELSE [run EXCEPT !.phase = "files", !.file = 1,
                             !.listing = listing, !.filenames = filenames,
                             !.did = <<>>]
  /\ UNCHANGED UnitsFrame

\* process_data.py 163-215: one turn of the loop over the sorted names. A
\* name without configuration and a file without loader are skipped with a
\* warning; nothing catches what the extractor or the loader raise.
ProcessFile ==
  /\ run.phase = "files"
  /\ run.file <= Len(run.filenames)
  /\ \E outcome \in FileOutcomes :
       LET filename == run.filenames[run.file]
           file_config == run.data_files[filename]
       IN run' =
            IF ~file_config.configured
            THEN [run EXCEPT !.file = @ + 1,
                    !.did = Append(@, Did(filename, "skipped", "no config"))]
            ELSE IF ~file_config.loader
            THEN [run EXCEPT !.file = @ + 1,
                    !.did = Append(@, Did(filename, "skipped", "no loader"))]
            ELSE IF outcome = "raised"
            THEN [run EXCEPT !.phase = "raised", !.error = "Exception",
                    !.did = Append(@, Did(filename, outcome, ""))]
            ELSE [run EXCEPT !.file = @ + 1,
                    !.did = Append(@, Did(filename, outcome, ""))]
  /\ UNCHANGED UnitsFrame

\* The loop over the names of the directory is exhausted.
DirectoryEnd ==
  /\ run.phase = "files"
  /\ run.file > Len(run.filenames)
  /\ run' = [run EXCEPT !.phase = "walk", !.dir = @ + 1]
  /\ UNCHANGED UnitsFrame

\* os.walk is exhausted.
WalkEnd ==
  /\ run.phase = "walk"
  /\ run.dir > MaxDirs
  /\ run' = [run EXCEPT !.phase = "finished"]
  /\ UNCHANGED UnitsFrame

NextWalk ==
  \/ WalkDirectory
  \/ ProcessFile
  \/ DirectoryEnd
  \/ WalkEnd

SpecWalk == InitWalk /\ [][NextWalk]_vars

\* ------------------------------------------------- the plan of the last call
\* The keys of the rows stored before the last call, in cursor order.
PreKeys ==
  [j \in 1..Len(last.pre_rows) |->
     last.pre_rows[j][IndexOf(last.pre_fields, id_column)]]

InKeys == Column(last.in_df, id_column)

\* The index labels of the candidates moved to the insert path.
MovedIx == {last.new_df.rows[i].ix : i \in 1..Len(last.new_df.rows)}

\* updateSet: the update candidates left after the unmatched occurrences
\* were moved to insertSet.
UpdateSet ==
  MaskSelect(last.update_df.rows,
             [i \in 1..Len(last.update_df.rows) |->
                last.update_df.rows[i].ix \notin MovedIx])

UpdateSetIx == {UpdateSet[i].ix : i \in 1..Len(UpdateSet)}

\* insertSet: the rows of insert_df, as handed to the commit.
InsertSet == last.insert_df.rows

Stored == last.kind \in {"create", "merge"}

\* C1. Partition totality: after a store call every incoming row is in
\* exactly one of insertSet and updateSet, no row twice, and the sizes of
\* the two sets add up to the size of the batch.
PartitionTotality ==
  Stored =>
    LET n == Len(last.in_df.rows)
        InsCount(x) ==
          Cardinality({i \in 1..Len(InsertSet) : InsertSet[i].ix = x})
        UpdCount(x) ==
          Cardinality({i \in 1..Len(UpdateSet) : UpdateSet[i].ix = x})
    IN /\ Len(InsertSet) + Len(UpdateSet) = n
       /\ Len(last.insert_list) = Len(InsertSet)
       /\ \A x \in 1..n : InsCount(x) + UpdCount(x) = 1

PartitionWitness ==
  /\ last.kind = "merge"
  /\ Len(last.new_df.rows) > 0
  /\ Len(UpdateSet) > 0
  /\ Len(InsertSet) + Len(UpdateSet) = Len(last.in_df.rows)

\* C2. Mask alignment: update_mask has one entry per stored row, and entry j
\* is true iff the key of stored row j is the key of a row of the final
\* updateSet.
MaskAlignment ==
  last.kind = "merge" =>
    /\ Len(last.update_mask) = Len(last.pre_rows)
    /\ \A j \in 1..Len(last.pre_rows) :
         last.update_mask[j] <=>
           \E i \in 1..Len(UpdateSet) : UpdateSet[i].val[id_column] = PreKeys[j]

MaskWitness ==
  /\ last.kind = "merge"
  /\ Len(last.new_df.rows) > 0
  /\ \E j \in 1..Len(last.update_mask) : last.update_mask[j]
  /\ \E j \in 1..Len(last.update_mask) : ~last.update_mask[j]

\* The example of the specification: persisted ids 1, 2 and incoming ids
\* 2, 3 (the names A, B, B2, C written 1, 2, 3, 4).
ExamplePersisted ==
  [cols |-> <<"id", "name">>,
   rows |-> <<[ix |-> 1, val |-> [id |-> 1, name |-> 1]],
              [ix |-> 2, val |-> [id |-> 2, name |-> 2]]>>]

ExampleIncoming ==
  [cols |-> <<"id", "name">>,
   rows |-> <<[ix |-> 1, val |-> [id |-> 2, name |-> 3]],
              [ix |-> 2, val |-> [id |-> 3, name |-> 4]]>>]

\* C4. Membership classification: before the unmatched occurrences are
\* moved, update_df holds exactly the incoming rows whose key is stored and
\* insert_df exactly the others, both in batch order; on the example of the
\* specification updateSet is the row with id 2, the mask is
\* [false, true] and insertSet is the row with id 3.
MembershipClassification ==
  /\ last.kind = "merge" =>
       LET present == [i \in 1..Len(last.in_df.rows) |->
                         \E j \in 1..Len(PreKeys) : PreKeys[j] = InKeys[i]]
       IN /\ last.update_df.rows = MaskSelect(last.in_df.rows, present)
          /\ [i \in 1..Len(last.insert_first.rows) |->
                last.insert_first.rows[i].ix]
               = MaskSelect([i \in 1..Len(InKeys) |-> i], Not(present))
          /\ \A i \in 1..Len(last.insert_first.rows) :
               LET r == last.insert_first.rows[i]
               IN \A c \in Range(last.in_df.cols) :
                    r.val[c] = last.in_df.rows[r.ix].val[c]
  /\ LET plan == storeTable(ExampleIncoming, ExamplePersisted)
     IN /\ plan.update_df.rows = <<ExampleIncoming.rows[1]>>
        /\ plan.update_mask = <<FALSE, TRUE>>
        /\ plan.insert_first.rows = <<ExampleIncoming.rows[2]>>
        /\ plan.insert_df.rows = <<ExampleIncoming.rows[2]>>

MembershipWitness ==
  /\ last.kind = "merge"
  /\ PreKeys = <<1, 2>>
  /\ InKeys = <<2, 3>>
  /\ last.update_mask = <<FALSE, TRUE>>
  /\ Column(last.update_df, id_column) = <<2>>
  /\ Column(last.insert_first, id_column) = <<3>>

\* The occurrence index of row i of a column of keys: its 0-based rank
\* among the rows with the same key.
Occurrence(keys, i) == Cardinality({k \in 1..(i - 1) : keys[k] = keys[i]})

UpdKeys == Column(last.update_df, id_column)

\* The update candidates with the (key, occurrence index) of stored row j.
SameOccurrence(j) ==
  {i \in 1..Len(UpdKeys) :
     /\ UpdKeys[i] = PreKeys[j]
     /\ Occurrence(UpdKeys, i) = Occurrence(PreKeys, j)}

\* The value stored in column c of row j before the last call.
PreValue(j, c) == last.pre_rows[j][IndexOf(last.pre_fields, c)]

SharedColumns == Range(last.pre_fields) \cap Range(last.in_df.cols)

\* C3. Idempotence: storing the same batch a second time leaves the table
\* as the first store left it, and inserts nothing.
Idempotence ==
  (last.again /\ last.kind = "merge") =>
    /\ table_rows = last.pre_rows
    /\ table_fields = last.pre_fields
    /\ last.insert_list = <<>>

\* The example of occurrence fidelity: stored id 1 twice (seq 0, 1; v = a,
\* b), one incoming row with id 1 (the values a, b, a2 written 1, 2, 3).
OccurrencePersisted ==
  [cols |-> <<"id", "seq", "v">>,
   rows |-> <<[ix |-> 1, val |-> [id |-> 1, seq |-> 0, v |-> 1]],
              [ix |-> 2, val |-> [id |-> 1, seq |-> 1, v |-> 2]]>>]

OccurrenceIncoming ==
  [cols |-> <<"id", "v">>,
   rows |-> <<[ix |-> 1, val |-> [id |-> 1, v |-> 3]]>>]

\* C5. Occurrence fidelity: the shared-column merge changes a stored row
\* only by the candidate with the same (key, occurrence index), and only in
\* the shared columns; a stored row without such a candidate keeps every
\* value, also when another occurrence of its key is updated.
OccurrenceFidelity ==
  /\ (last.kind = "merge" /\ last.merges) =>
       /\ Len(last.update_shared.rows) = Len(last.pre_rows)
       /\ \A j \in 1..Len(last.pre_rows) :
            LET merged == last.update_shared.rows[j].val
            IN /\ Cardinality(SameOccurrence(j)) <= 1
               /\ \A c \in Range(last.pre_fields) :
                    IF c \in SharedColumns \ {id_column}
                    THEN /\ SameOccurrence(j) = {} => merged[c] = PreValue(j, c)
                         /\ \A i \in SameOccurrence(j) :
                              merged[c] \in {PreValue(j, c),
                                             last.update_df.rows[i].val[c]}
                    ELSE merged[c] = PreValue(j, c)
       \* the commit writes the merged rows when the plan is aligned
       /\ (Len(last.update_data.rows) = Len(last.pre_rows)
             /\ last.update_shared.cols = last.pre_fields) =>
            \A j \in 1..Len(last.pre_rows) :
              SameOccurrence(j) = {} =>
                \A c \in Range(last.pre_fields) :
                  table_rows[j][IndexOf(table_fields, c)] = PreValue(j, c)
  /\ LET plan == storeTable(OccurrenceIncoming, OccurrencePersisted)
     IN /\ plan.update_shared.rows[1].val = [id |-> 1, seq |-> 0, v |-> 3]
        /\ plan.update_shared.rows[2].val = [id |-> 1, seq |-> 1, v |-> 2]
        /\ plan.insert_list = <<>>

OccurrenceWitness ==
  /\ last.kind = "merge"
  /\ last.merges
  /\ Len(last.pre_rows) = 2
  /\ PreKeys[1] = PreKeys[2]
  /\ Len(last.in_df.rows) = 1
  /\ InKeys[1] = PreKeys[1]
  /\ last.in_df.rows[1].val["v"] \notin {Null, PreValue(1, "v"), PreValue(2, "v")}
  /\ last.update_shared.rows[1].val["v"] = last.in_df.rows[1].val["v"]
  /\ last.update_shared.rows[2].val["v"] = PreValue(2, "v")
  /\ table_rows[2] = last.pre_rows[2]

\* C6. Unmatched-occurrence promotion: every update candidate whose
\* (key, occurrence index) no stored row has leaves updateSet and is in
\* insertSet exactly once.
UnmatchedPromotion ==
  last.kind = "merge" =>
    \A i \in 1..Len(UpdKeys) :
      (~\E j \in 1..Len(PreKeys) : i \in SameOccurrence(j)) =>
        LET x == last.update_df.rows[i].ix
        IN /\ x \notin UpdateSetIx
           /\ Cardinality({k \in 1..Len(InsertSet) : InsertSet[k].ix = x}) = 1

\* C7. No data is lost on promotion: a candidate moved to the insert path
\* has in insertSet every value it had in the batch, the values of the
\* columns the table lacks included.
PromotionKeepsValues ==
  last.kind = "merge" =>
    \A k \in 1..Len(InsertSet) :
      InsertSet[k].ix \in MovedIx =>
        \A c \in Range(last.in_df.cols) :
          InsertSet[k].val[c] = last.in_df.rows[InsertSet[k].ix].val[c]

Unique(keys) == \A i, k \in 1..Len(keys) : keys[i] = keys[k] => i = k

\* C8. Key-only merge overwrite: with every key unique among the stored rows
\* and among the candidates, a stored row with a candidate of its key has
\* the candidate's value in every shared column, and a stored row without
\* one keeps its values.
KeyOnlyOverwrite ==
  (last.kind = "merge" /\ last.merges /\ Unique(PreKeys) /\ Unique(UpdKeys)) =>
    \A j \in 1..Len(last.pre_rows) :
      \A c \in SharedColumns \ {id_column} :
        LET merged == last.update_shared.rows[j].val[c]
            cands  == {i \in 1..Len(UpdKeys) : UpdKeys[i] = PreKeys[j]}
        IN /\ cands = {} => merged = PreValue(j, c)
           /\ \A i \in cands : merged = last.update_df.rows[i].val[c]

\* The columns of the batch that the table lacked before the last call.
NewColumns ==
  SelectSeq(last.in_df.cols, LAMBDA c : c \notin Range(last.pre_fields))

\* The incoming rows with the key of stored row j.
Candidates(j) == {i \in 1..Len(InKeys) : InKeys[i] = PreKeys[j]}

\* The number of rows a left join on the key makes from stored row j.
JoinCount(j) ==
  IF Candidates(j) = {} THEN 1 ELSE Cardinality(Candidates(j))

\* The number of rows the join makes from the stored rows before row j.
RECURSIVE JoinOffset(_)
JoinOffset(j) == IF j <= 1 THEN 0 ELSE JoinOffset(j - 1) + JoinCount(j - 1)

\* The rows of update_data that the join made from stored row j: the join
\* keeps the order of the stored rows, so they are the JoinCount(j) rows
\* that follow those of the stored rows before j.
JoinedRows(j) ==
  {k \in 1..Len(last.update_data.rows) :
     JoinOffset(j) < k /\ k <= JoinOffset(j) + JoinCount(j)}

\* C9 for ArcpyFileLoader.storeTable. New-column join: the columns only
\* the batch has are added to
\* update_data by a left join on the key. A stored row with candidates of its
\* key yields one joined row per candidate, with that candidate's values in
\* the new columns; a stored row without a candidate yields one row with
\* null in every new column; the other columns are those of the merged stored
\* row. After the commit a stored row without a candidate has null in every
\* new column, and with unique candidate keys a stored row has its
\* candidate's values there.
NewColumnJoin ==
  (last.kind = "merge" /\ last.joins) =>
    /\ last.update_data.cols = last.update_shared.cols \o NewColumns
    /\ last.fields = last.pre_fields \o NewColumns
    /\ Len(last.update_data.rows) = JoinOffset(Len(last.pre_rows) + 1)
    /\ \A j \in 1..Len(last.pre_rows) :
         /\ Cardinality(JoinedRows(j))
              = IF Candidates(j) = {} THEN 1 ELSE Cardinality(Candidates(j))
         /\ \A i \in Candidates(j) : \E k \in JoinedRows(j) :
              \A c \in Range(NewColumns) :
                last.update_data.rows[k].val[c] = last.in_df.rows[i].val[c]
         /\ \A k \in JoinedRows(j) :
              /\ \A c \in Range(last.update_shared.cols) :
                   last.update_data.rows[k].val[c]
                     = last.update_shared.rows[j].val[c]
              /\ IF Candidates(j) = {}
                 THEN \A c \in Range(NewColumns) :
                        last.update_data.rows[k].val[c] = Null
                 ELSE \E i \in Candidates(j) : \A c \in Range(NewColumns) :
                        last.update_data.rows[k].val[c]
                          = last.in_df.rows[i].val[c]
         /\ Candidates(j) = {} =>
              \A c \in Range(NewColumns) :
                table_rows[j][IndexOf(table_fields, c)] = Null
         /\ (Unique(UpdKeys) /\ last.update_shared.cols = last.pre_fields) =>
              \A i \in Candidates(j) : \A c \in Range(NewColumns) :
                table_rows[j][IndexOf(table_fields, c)]
                  = last.in_df.rows[i].val[c]

\* The columns that the batch of a call of GeoPandasFileLoader has and the
\* stored file had not, and the rows of the batch with the key of the row
\* j of the file that the call left.
KeyNewColumns ==
  SelectSeq(key.in_df.cols,
            LAMBDA c : c \notin Range(key.before.fields) /\ c # "geometry")

KeyCandidates(j) ==
  {i \in 1..Len(key.in_df.rows) :
     key.in_df.rows[i].val[id_column]
       = key.after.rows[j][IndexOf(key.after.fields, id_column)]}

\* The rows of the file that the call left whose key was stored before it.
KeyPersisted ==
  {j \in 1..Len(key.after.rows) :
     \E k \in 1..Len(key.before.rows) :
       key.before.rows[k][IndexOf(key.before.fields, id_column)]
         = key.after.rows[j][IndexOf(key.after.fields, id_column)]}

\* C9 for GeoPandasFileLoader.store_processed_data: after a call that
\* returned, on a stored file and with a batch that has a row of a stored
\* key and a column that the file lacks, every column that only the batch
\* has is a column of the file; a persisted row with a candidate of its
\* key has the values of such a candidate in the new columns, and a
\* persisted row without candidate has null there.
NewColumnJoinGeoPandas ==
  (/\ key.pc = "done"
   /\ key.loader = "GeoPandasFileLoader"
   /\ key.error = ""
   /\ key.before.exists
   /\ KeyNewColumns # <<>>
   /\ key.before.rows # <<>>
   /\ id_column \in Range(key.in_df.cols)
   /\ id_column \in Range(key.before.fields)
   /\ \E i \in 1..Len(key.in_df.rows), k \in 1..Len(key.before.rows) :
        key.in_df.rows[i].val[id_column]
          = key.before.rows[k][IndexOf(key.before.fields, id_column)]) =>
    /\ Range(KeyNewColumns) \subseteq Range(key.after.fields)
    /\ \A j \in KeyPersisted : \A c \in Range(KeyNewColumns) :
         IF KeyCandidates(j) = {}
         THEN key.after.rows[j][IndexOf(key.after.fields, c)] = Null
         ELSE \E i \in KeyCandidates(j) :
                key.after.rows[j][IndexOf(key.after.fields, c)]
                  = key.in_df.rows[i].val[c]

NewColumnWitness ==
  /\ last.kind = "merge"
  /\ last.joins
  /\ Len(last.pre_rows) = 2
  /\ Candidates(1) = {}
  /\ Candidates(2) # {}
  /\ \E i \in Candidates(2) : last.in_df.rows[i].val[NewColumn] # Null
  /\ table_rows[1][IndexOf(table_fields, NewColumn)] = Null
  /\ table_rows[2][IndexOf(table_fields, NewColumn)] # Null

\* The stored rows of the last call with none of its updates and inserts
\* applied (the added fields are null).
NoneApplied ==
  [j \in 1..Len(last.pre_rows) |->
     [p \in 1..Len(last.fields) |->
        IF p <= Len(last.pre_fields) THEN last.pre_rows[j][p] ELSE Null]]

\* The stored rows with every masked update and every insert applied.
AllApplied ==
  [j \in 1..(Len(last.pre_rows) + Len(last.insert_list)) |->
     IF j > Len(last.pre_rows) THEN last.insert_list[j - Len(last.pre_rows)]
     ELSE IF Len(last.update_list) > 0 /\ last.update_mask[j]
          THEN last.update_list[j]
          ELSE NoneApplied[j]]

\* C10 for ArcpyFileLoader.modifyDatabase. Atomic commit: in every state,
\* also inside modifyDatabase and after
\* an exception in it, the committed table holds either none or all of the
\* call's updates and inserts: none while the Editor block runs and after
\* an exception, all once the block was left normally.
AtomicCommit ==
  last.kind \in {"create", "merge", "aborted"} =>
    /\ table_rows \in {NoneApplied, AllApplied}
    /\ (pc # "idle" \/ last.kind = "aborted") => table_rows = NoneApplied
    /\ (pc = "idle" /\ last.kind # "aborted") => table_rows = AllApplied

\* C10 for both loaders: the table of ArcpyFileLoader holds none or all of
\* the updates and inserts of the call, and once a call of
\* GeoPandasFileLoader has ended, by a return or by an exception, the
\* stored file holds the records that the call found or the records of
\* the whole frame that the call wrote.
AtomicCommitOfLoaders ==
  /\ AtomicCommit
  /\ (key.loader = "GeoPandasFileLoader" /\ key.pc = "closed") =>
       \/ key.file.df.rows = key.before.df.rows
       \/ key.file.df.rows = key.data.rows

\* An exception after an update and an insert were made in the session.
AtomicWitness ==
  /\ last.kind = "aborted"
  /\ \E j \in 1..Len(last.update_mask) :
       last.update_mask[j] /\ last.update_list[j] # NoneApplied[j]
  /\ Len(last.insert_list) > 0
  /\ table_rows = NoneApplied
  /\ AllApplied # NoneApplied

\* C11. Failure isolation: the run ends only after every file of the loop
\* had its turn; a file whose extraction or store fails does not keep the
\* later files from being processed.
FailureIsolation ==
  run.state \in {"raised", "exited", "finished"} => run.unit > MaxUnits

\* The polygons of the source that carry the configured identifier.
Matching == select_polygon(flt.polygon_df)

\* C12. Polygon lookup determinism: loading the filter polygon succeeds iff
\* exactly one polygon of the source has the configured identifier, fails
\* otherwise, and never returns a polygon with another identifier.
PolygonLookup ==
  /\ flt.pc = "raised" => Len(Matching) # 1
  /\ flt.pc \in {"geometry", "validate", "correct", "revalidate", "done"} =>
       /\ Len(Matching) = 1
       /\ flt.polygon.pid = polygon_id
       /\ flt.polygon = Matching[1]

\* The index labels of the rows of a frame.
Labels(df) == {df.rows[i].ix : i \in 1..Len(df.rows)}

\* The rows of df, as a set.
RowSet(df) == Range(df.rows)

Validated == flt.pc \in {"correct", "revalidate", "done"}

\* C13. validate partitions the records with a non-empty geometry: such a
\* record is in exactly one of valid and invalid, unchanged, and in valid
\* iff x > y (x = y is invalid); a record with an empty geometry is in
\* neither, and the two lists hold nothing else.
ValidatePartition ==
  Validated =>
    /\ \A r \in RowSet(flt.geo_df) :
         IF is_empty(r.val["geometry"])
         THEN r \notin RowSet(flt.xy_valid) /\ r \notin RowSet(flt.xy_invalid)
         ELSE /\ r \in RowSet(flt.xy_valid) <=> r \notin RowSet(flt.xy_invalid)
              /\ r \in RowSet(flt.xy_valid) <=>
                   /\ Null \notin {r.val["x"], r.val["y"]}
                   /\ r.val["x"] > r.val["y"]
    /\ RowSet(flt.xy_valid) \cup RowSet(flt.xy_invalid) \subseteq RowSet(flt.geo_df)
    /\ Len(flt.xy_valid.rows) + Len(flt.xy_invalid.rows) =
         Cardinality({i \in 1..Len(flt.geo_df.rows) :
                        ~is_empty(flt.geo_df.rows[i].val["geometry"])})

\* A validation that met an empty geometry and a point with x = y.
ValidateWitness ==
  /\ Validated
  /\ \E r \in RowSet(flt.geo_df) : is_empty(r.val["geometry"])
  /\ \E r \in RowSet(flt.xy_invalid) :
       r.val["x"] = r.val["y"] /\ r.val["x"] # Null

\* The record {x: 10, y: 50} of the specification, with its geometry.
SwapExample ==
  add_geometry([cols |-> <<"id", "x", "y">>,
                rows |-> <<[ix |-> 1, val |-> [id |-> 1, x |-> 10, y |-> 50]]>>],
               FALSE)

\* C14. Single correction attempt: no record is swapped more than once; the
\* records invalid at the first validation, and only they, are swapped once
\* and validated again; the result is the valid records and the corrected
\* ones with their coordinates exchanged; a record that is invalid again
\* after the swap is not in the result, and the logged counts give the
\* number of invalid records that were dropped; {x: 10, y: 50} becomes
\* {x: 50, y: 10} and passes the validation.
SingleCorrection ==
  /\ flt.pc # "off" => \A i \in DOMAIN flt.swaps : flt.swaps[i] <= 1
  /\ flt.pc = "done" =>
       /\ \A i \in DOMAIN flt.swaps :
            flt.swaps[i] = 1 <=> i \in Labels(flt.invalid_df)
       /\ RowSet(flt.filtered_df) =
            RowSet(flt.valid_df) \cup RowSet(flt.corrected_df)
       /\ \A r \in RowSet(flt.corrected_df) :
            \E q \in RowSet(flt.invalid_df) :
              /\ q.ix = r.ix
              /\ r.val["x"] = q.val["y"]
              /\ r.val["y"] = q.val["x"]
              /\ r.val["x"] > r.val["y"]
       /\ \A q \in RowSet(flt.invalid_df) :
            ~(q.val["y"] # Null /\ q.val["x"] # Null /\ q.val["y"] > q.val["x"])
              => /\ q.ix \notin Labels(flt.filtered_df)
                 /\ q.ix \in Labels(flt.dropped_df)
       /\ Len(flt.invalid_df.rows) > 0 =>
            flt.log[1][2] - flt.log[2][1] =
              Cardinality(Labels(flt.invalid_df) \ Labels(flt.filtered_df))
  /\ point_xy_validation(SwapExample).invalid = SwapExample
  /\ LET swapped == swap_xy(SwapExample, FALSE)
     IN /\ swapped.rows[1].val["x"] = 50
        /\ swapped.rows[1].val["y"] = 10
        /\ swapped.rows[1].val["geometry"] = <<50, 10>>
        /\ point_xy_validation(swapped).valid = swapped

\* A filter run that corrected one record by the swap and dropped another
\* that was invalid again.
CorrectionWitness ==
  /\ flt.pc = "done"
  /\ Len(flt.corrected_df.rows) = 1
  /\ Len(flt.dropped_df.rows) = 1
  /\ \A i \in DOMAIN flt.swaps : flt.swaps[i] = 1

\* The swap of the invalid entries has been made.
Swapped == flt.pc \in {"revalidate", "done"} /\ Len(flt.invalid_df.rows) > 0

\* C15. swap_xy is pure and exchanges the coordinates: the returned frame
\* has the labels and the other columns of its input, x equal to the input's
\* y and y equal to the input's x, and a geometry built from the exchanged
\* values; the input frame is what the first validation returned, unchanged
\* by the call; swap_xy applied twice gives back the input.
SwapPure ==
  Swapped =>
    /\ Len(flt.swapped_df.rows) = Len(flt.invalid_df.rows)
    /\ Range(flt.swapped_df.cols) = Range(flt.invalid_df.cols)
    /\ \A i \in 1..Len(flt.invalid_df.rows) :
         LET in  == flt.invalid_df.rows[i]
             out == flt.swapped_df.rows[i]
         IN /\ out.ix = in.ix
            /\ out.val["x"] = in.val["y"]
            /\ out.val["y"] = in.val["x"]
            /\ out.val["geometry"] =
                 Point(in.val["y"], in.val["x"], flt.nan_empty)
            /\ out.val[id_column] = in.val[id_column]
    /\ flt.invalid_df =
         process_point_poly_intersect(flt.geo_df, flt.polygon).invalid
    /\ \A i \in 1..Len(flt.invalid_df.rows) :
         flt.invalid_df.rows[i].val["geometry"] =
           Point(flt.invalid_df.rows[i].val["x"],
                 flt.invalid_df.rows[i].val["y"], flt.nan_empty)
    /\ swap_xy(flt.swapped_df, flt.nan_empty) = flt.invalid_df

\* A swap of an entry with two different coordinates and of an entry with a
\* missing coordinate.
SwapWitness ==
  /\ Swapped
  /\ \E r \in RowSet(flt.invalid_df) :
       r.val["x"] # Null /\ r.val["y"] # Null /\ r.val["x"] # r.val["y"]
  /\ \E r \in RowSet(flt.invalid_df) :
       r.val["x"] = Null /\ r.val["y"] # Null

\* C16. A record whose geometry is absent (it has no coordinates) does not
\* pass the validation, and is not lost: it is in the frame that filter_data
\* returns for reconciliation.
AbsentGeometryKept ==
  flt.pc = "done" =>
    \A r \in RowSet(flt.geo_df) :
      r.val["x"] = Null /\ r.val["y"] = Null =>
        /\ r.ix \notin Labels(flt.xy_valid)
        /\ r.ix \in Labels(flt.filtered_df)

\* The key column is missing from the batch of the last call or from the
\* data that was stored before it.
KeyAbsent ==
  \/ id_column \notin Range(key.in_df.cols)
  \/ key.before.exists /\ id_column \notin Range(key.before.fields)

\* C17. A missing key column is a typed failure: a store call whose batch
\* or whose stored data lacks the key column ends with KeyError and leaves
\* the stored data as it was.
MissingKeyFails ==
  key.pc = "done" /\ KeyAbsent =>
    /\ key.error = "KeyError"
    /\ key.after = key.before

\* The cells of the frames of a snapshot <<in_df, processed_data>>.
Cells(frames) ==
  UNION {{frames[k].rows[i].val[c] :
            i \in 1..Len(frames[k].rows), c \in Range(frames[k].cols)} :
         k \in 1..Len(frames)}

\* Every missing cell of the frames is the one sentinel None, so any two
\* missing cells compare equal.
OneSentinel(frames) ==
  /\ NaN \notin Cells(frames)
  /\ \A a, b \in Cells(frames) : isna(a) /\ isna(b) => py_eq(a, b)

\* C18. Null normalization: when the rows are classified and when they are
\* merged, every missing value of the incoming and of the stored frame is
\* the one sentinel, and two missing values compare equal.
NullNormalization ==
  /\ key.pc \in {"replace", "merge", "merged"} => OneSentinel(key.at_classify)
  /\ key.pc = "merged" => OneSentinel(key.at_merge)

\* The stored rows of the state t of the table that hold a key of in_df.
KeyMask(t, in_df) ==
  [j \in 1..Len(t.rows) |->
     \E i \in 1..Len(in_df.rows) :
       in_df.rows[i].val[id_column] = t.rows[j][IndexOf(t.fields, id_column)]]

\* C19. Sequential visibility: every unit of a run that stores into the
\* table reads the table as the previous storing unit committed it (the
\* first one reads the table as the run found it), and the rows of the
\* later unit are classified against that commit.
SequentialVisibility ==
  /\ run.state # "off" =>
       \A k \in 1..Len(run.committed) :
         run.seen[k] = IF k = 1 THEN TableState(FALSE, <<>>, <<>>)
                       ELSE run.committed[k - 1]
  /\ run.state # "off" /\ Len(run.committed) >= 2 =>
       LET prev == run.committed[Len(run.committed) - 1]
       IN /\ last.kind = "merge"
          /\ last.pre_fields = prev.fields
          /\ last.pre_rows = prev.rows
          /\ last.update_mask = KeyMask(prev, last.in_df)

\* Two units of one run stored into the table, and the later one updated a
\* row that the earlier one had inserted.
VisibilityWitness ==
  /\ run.state # "off"
  /\ Len(run.committed) = 2
  /\ \E j \in 1..Len(last.update_mask) : last.update_mask[j]

\* The last call stored a batch with the key column when nothing was stored.
FirstRun ==
  /\ key.pc = "done"
  /\ ~key.before.exists
  /\ id_column \in Range(key.in_df.cols)

\* C20. First run: when nothing is stored, loading returns the empty frame,
\* and the store of a batch succeeds, updates no row and leaves one stored
\* row per incoming row, in the order of the batch and with the cells of
\* the batch; ArcpyFileLoader stores the columns of the batch,
\* GeoPandasFileLoader adds the coordinate columns it derives.
FirstRunInsertsAll ==
  FirstRun =>
    /\ key.error = ""
    /\ key.before.rows = <<>>
    /\ key.after.exists
    /\ Len(key.after.rows) = Len(key.in_df.rows)
    /\ Range(key.in_df.cols) \subseteq Range(key.after.fields)
    /\ \A i \in 1..Len(key.in_df.rows) : \A c \in Range(key.in_df.cols) :
         key.after.rows[i][IndexOf(key.after.fields, c)] =
           key.in_df.rows[i].val[c]
    /\ Range(key.after.fields) \ Range(key.in_df.cols)
         \subseteq {"x", "y", "geometry"}
    /\ key.loader = "ArcpyFileLoader" =>
         /\ load_processed_data(key.before.fields, key.before.rows) = EmptyFrame
         /\ last.kind = "create"
         /\ last.update_list = <<>>
         /\ last.insert_list = ValuesToList(key.in_df)
         /\ key.after.fields = key.in_df.cols
    /\ key.loader = "GeoPandasFileLoader" =>
         GeoPandas_load_processed_data(NoFile) = EmptyFrame

\* A first store of two rows with the same key with ArcpyFileLoader.
FirstRunWitness ==
  /\ FirstRun
  /\ key.loader = "ArcpyFileLoader"
  /\ Len(key.in_df.rows) = 2
  /\ key.in_df.rows[1].val[id_column] = key.in_df.rows[2].val[id_column]
  /\ Len(key.after.rows) = 2

\* C21. Input immutability: the frame handed to store_processed_data has
\* the same columns after the call as before it.
InputImmutable ==
  run.state # "off" => run.returned = run.passed

\* C22. The update path of the feature class is completed like the one of
\* the table: a store into an existing feature class that shares columns
\* with the batch reaches modifyDatabase; the process is never ended before
\* the commit.
FeatureClassCommits ==
  run.state # "off" => run.state # "exited"

\* C23. The update rows stay aligned with the stored rows: the frame whose
\* rows are handed to modifyDatabase as update_list has one row per stored
\* row, in stored order, the i-th with the key of the i-th stored row.
UpdateAlignment ==
  last.kind = "merge" =>
    /\ Len(last.update_list) = Len(last.pre_rows)
    /\ Len(last.update_data.rows) = Len(last.pre_rows)
    /\ \A i \in 1..Len(last.pre_rows) :
         last.update_data.rows[i].val[id_column] =
           last.pre_rows[i][IndexOf(last.pre_fields, id_column)]

\* C24. The column order of the committed rows matches the field list: when
\* a stored row is rewritten, the columns of the frame that gives
\* update_list are the fields handed to modifyDatabase, in the same order,
\* and every insert row has one value per field.
ColumnOrder ==
  /\ last.kind = "merge"
     /\ (\E i \in 1..Len(last.update_mask) : last.update_mask[i]) =>
       last.update_data.cols = last.fields
  /\ last.kind \in {"create", "merge"} =>
       \A i \in 1..Len(last.insert_list) :
         Len(last.insert_list[i]) = Len(last.fields)


\* The number of rows of a stored table whose key is k.
KeyCount(fields, rows, k) ==
  Cardinality({i \in 1..Len(rows) : rows[i][IndexOf(fields, id_column)] = k})

\* C25. A call of storeTable on a stored table loses no stored row: for
\* every key the table holds at least as many rows after the call as before
\* it, and at most as many more as the call inserted with that key.
NoRowLost ==
  last.kind = "merge" =>
    \A k \in Keys :
      /\ KeyCount(table_fields, table_rows, k)
           >= KeyCount(last.pre_fields, last.pre_rows, k)
      /\ KeyCount(table_fields, table_rows, k)
           <= KeyCount(last.pre_fields, last.pre_rows, k)
              + Cardinality({i \in 1..Len(last.insert_df.rows) :
                               last.insert_df.rows[i].val[id_column] = k})


\* C26. An exception raised by a scraper or by an API unit never leaves
\* process_data: it is logged as a warning, and when the loops are done
\* every scraper and every API unit of the configuration was begun, in
\* order, and the data-file phase is entered. The only exception that ends
\* the run is the StopIteration of the first statement of the data-file
\* phase when the data folder does not exist.
UnitsIsolated ==
  /\ run.phase = "raised" =>
       run.error = "StopIteration" /\ ~run.data_folder
  /\ \A i \in 1..Len(run.ran) :
       run.ran[i].outcome \in Raises => run.ran[i].warning = "Exception"
  /\ run.phase \in {"files", "raised"} =>
       /\ run.data_folder => run.phase = "files"
       /\ Len(run.ran) = run.scrapers + Len(run.apis)
       /\ \A i \in 1..run.scrapers :
            run.ran[i].kind = "scraper" /\ run.ran[i].unit = i
       /\ \A i \in 1..Len(run.apis) :
            /\ run.ran[run.scrapers + i].kind = "api"
            /\ run.ran[run.scrapers + i].unit = i

\* The data-file phase is reached after a scraper and an API unit raised,
\* one of them something that is not an Exception, with a unit after each.
IsolationWitness ==
  /\ run.phase = "files"
  /\ run.scrapers = 2
  /\ Len(run.apis) = 2
  /\ run.ran[1].outcome = "SystemExit"
  /\ run.ran[3].outcome = "Exception"
  /\ run.ran[4].outcome = "returned"
  /\ run.ran[4].warning = ""


\* C27. A file without an entry in config["data_files"] never ends the
\* walk: its directory is sorted and looped over, the file is skipped with a
\* warning, and every other file of the directory is taken up.
UnconfiguredSkipped ==
  LET looped == /\ run.phase = "walk"
                /\ run.filenames # <<>>
                /\ run.data_files[run.filenames[1]].configured
                /\ run.data_files[run.filenames[1]].coordinates
  IN (\E i \in 1..Len(run.listing) :
        ~run.data_files[run.listing[i]].configured)
       => /\ run.error # "KeyError"
          /\ looped =>
               /\ Len(run.did) = Len(run.listing)
               /\ \A i \in 1..Len(run.did) :
                    ~run.data_files[run.did[i].filename].configured
                      => run.did[i].warning = "no config"


\* The files of the directory that the loop handed to their extractor, in
\* the order of the loop.
Extracted == SelectSeq(run.did, LAMBDA d : d.outcome # "skipped")

\* file_config["coordinates"] != None for the file of an entry.
Spatial(d) == run.data_files[d.filename].coordinates

\* C28. Within one directory no file without coordinates is extracted
\* before a file with coordinates, and the files without coordinates are
\* extracted in non-decreasing max(1, file_order): a file_order below 1
\* counts as 1.
SpatialFirst ==
  \A i, j \in 1..Len(Extracted) :
    i < j =>
      /\ ~(~Spatial(Extracted[i]) /\ Spatial(Extracted[j]))
      /\ sort_files(Extracted[i].filename, run.data_files)
           <= sort_files(Extracted[j].filename, run.data_files)

\* C28 as stated: the files without coordinates are extracted in
\* non-decreasing file_order.
SpatialFirstByFileOrder ==
  \A i, j \in 1..Len(Extracted) :
    i < j =>
      /\ ~(~Spatial(Extracted[i]) /\ Spatial(Extracted[j]))
      /\ ~Spatial(Extracted[i]) /\ ~Spatial(Extracted[j]) =>
           run.data_files[Extracted[i].filename].file_order
             <= run.data_files[Extracted[j].filename].file_order

\* A directory listed as a file of file_order 2, a file of file_order 0
\* and a file with coordinates was sorted and its three files extracted:
\* the one with coordinates, then the file of file_order 0, whose sort key
\* is 1, then the file of file_order 2.
SpatialFirstWitness ==
  /\ Len(Extracted) = 3
  /\ Spatial(Extracted[1])
  /\ ~Spatial(Extracted[2])
  /\ ~Spatial(Extracted[3])
  /\ run.listing = <<Extracted[3].filename, Extracted[2].filename,
                     Extracted[1].filename>>
  /\ run.data_files[Extracted[2].filename].file_order = 0
  /\ run.data_files[Extracted[3].filename].file_order = 2

\* C29. For a file without coordinates and a non-empty processed_ids,
\* filter_data returns the rows of the file whose key is in processed_ids,
\* in their order, and processed_ids holds every key stored for the first
\* loader of the directory and every key extracted from its file with
\* coordinates.
TableRowsFollowSpatial ==
  run.state # "off" /\ run.file_ids # <<>> /\ run.used_ids # {} =>
    /\ run.filtered_ids = SelectSeq(run.file_ids, LAMBDA k : k \in run.used_ids)
    /\ run.persisted_first \cup run.spatial_ids \subseteq run.used_ids

\* A file without coordinates was filtered after a key was extracted from
\* the file with coordinates: the row with that key was kept and its other
\* row dropped.
FollowWitness ==
  /\ run.state # "off"
  /\ run.spatial_ids # {}
  /\ run.used_ids = run.persisted_first \cup run.spatial_ids
  /\ Len(run.file_ids) = 2
  /\ Len(run.filtered_ids) = 1


\* The keys of the rows of a frame that has the key column.
KeysOf(df) == Range(Column(df, id_column))

\* C30. For a file with coordinates and stored data with the key column, no
\* row that reaches the validation and no row that filter_data returns has
\* a stored key, so the update mask that storeFeatureClass computes for the
\* returned batch marks no stored row.
SpatialInsertOnly ==
  flt.pc \notin {"off", "start"}
    /\ id_column \in Range(flt.database_data.cols) =>
      /\ KeysOf(flt.data) \cap KeysOf(flt.database_data) = {}
      /\ flt.pc = "done" =>
           /\ KeysOf(flt.filtered_df) \cap KeysOf(flt.database_data) = {}
           /\ \A i \in 1..Len(flt.database_data.rows) :
                ~isin(Column(flt.database_data, id_column),
                      Column(flt.filtered_df, id_column))[i]

\* filter_data returned rows of a file that also had a row with a stored
\* key.
InsertOnlyWitness ==
  /\ flt.pc = "done"
  /\ id_column \in Range(flt.database_data.cols)
  /\ KeysOf(flt.file_data) \cap KeysOf(flt.database_data) # {}
  /\ flt.filtered_df.rows # <<>>

====
